---- MODULE Spec2Model ----
(***************************************************************************)
(* Agreement Schedule Engine of JupiterLibrary (class JupiterDoc):         *)
(* term-date resolution, payment schedule generation, the amendment        *)
(* overlay and the purchase-price settlement.                              *)
(*                                                                         *)
(* Dates are day numbers of the proleptic Gregorian calendar, day 1 being  *)
(* 1 January 2023; every date of the model is a start of day, as the       *)
(* extracted facts are.  An absent value (null / undefined) is Null.       *)
(* Money and rates are exact: amounts are fractions [num, den].            *)
(***************************************************************************)
EXTENDS Integers, Sequences, FiniteSets, TLC

VARIABLES doc, others, pc, gen, snap

vars == <<doc, others, pc, gen, snap>>

\* null / undefined of the program; every genuine date, number and count is >= 0
Null == 0 - 1

\* `v` named as the parameter of Body (a local constant of the code)
With(v, Body(_)) == Body(v)

(***************************************************************************)
(* Calendar (luxon DateTime arithmetic)                                    *)
(***************************************************************************)
IsLeap(y) == (y % 4 = 0) /\ ((y % 100 # 0) \/ (y % 400 = 0))

DaysInYear(y) == IF IsLeap(y) THEN 366 ELSE 365

DaysInMonth(y, m) ==
    IF m = 2 THEN (IF IsLeap(y) THEN 29 ELSE 28)
    ELSE IF m \in {4, 6, 9, 11} THEN 30 ELSE 31

\* days from 1 March of year 0 to the first of month mp (March is 0) of the
\* year yoe of the 400-year era `era`
DaysFromEra(era, yoe, mp) ==
    era * 146097 + yoe * 365 + yoe \div 4 - yoe \div 100 + (153 * mp + 2) \div 5

\* days from 1 March of year 0 to day d of month m of year y (Gregorian)
DaysFromCivil(y, m, d) ==
    With(IF m <= 2 THEN y - 1 ELSE y, LAMBDA yy :
        DaysFromEra(yy \div 400, yy % 400, IF m > 2 THEN m - 3 ELSE m + 9) + d - 1)

\* luxon.DateTime.local(y, m, d)
DateLocal(y, m, d) == DaysFromCivil(y, m, d) - DaysFromCivil(2023, 1, 1) + 1

\* <<year, month, day>> of the day doy (1 March is 0) of the year yoe of an era
CivilOfYear(era, yoe, doy) ==
    With((5 * doy + 2) \div 153, LAMBDA mp :
        With(IF mp < 10 THEN mp + 3 ELSE mp - 9, LAMBDA m :
            <<yoe + era * 400 + (IF m <= 2 THEN 1 ELSE 0), m,
              doy - (153 * mp + 2) \div 5 + 1>>))

\* <<year, month, day>> of the day doe of a 400-year era
CivilOfEra(era, doe) ==
    With((doe - doe \div 1460 + doe \div 36524 - doe \div 146096) \div 365, LAMBDA yoe :
        CivilOfYear(era, yoe, doe - (365 * yoe + yoe \div 4 - yoe \div 100)))

\* <<year, month, day>> of day number t
Civil(t) ==
    With(t - 1 + DaysFromCivil(2023, 1, 1), LAMBDA z :
        CivilOfEra(z \div 146097, z % 146097))

YearOf(t) == Civil(t)[1]

MonthOf(t) == Civil(t)[2]

DayOf(t) == Civil(t)[3]

Min(a, b) == IF a <= b THEN a ELSE b

Max(a, b) == IF a >= b THEN a ELSE b

\* dt.plus({ days: n }) and dt.minus({ days: n }) on a start of day
PlusDays(t, n) == t + n

\* the day d of month k (counted from January of year 0), clamped to its length
ClampedDate(k, d) ==
    DateLocal(k \div 12, (k % 12) + 1, Min(d, DaysInMonth(k \div 12, (k % 12) + 1)))

\* dt.plus({ months: n }): the day of month is kept, clamped to the month's length
PlusMonths(t, n) ==
    With(Civil(t), LAMBDA c : ClampedDate((c[1] * 12) + (c[2] - 1) + n, c[3]))

\* dt.plus({ years: n })
PlusYears(t, n) == PlusMonths(t, 12 * n)

(***************************************************************************)
(* Exact arithmetic on amounts: a fraction [num, den] with den > 0, or NaN *)
(***************************************************************************)
RECURSIVE Gcd(_, _)
Gcd(a, b) == IF b = 0 THEN a ELSE Gcd(b, a % b)

Abs(a) == IF a < 0 THEN 0 - a ELSE a

NaN == [num |-> 0, den |-> 0]

IsNaN(x) == x.den = 0

Frac(n, d) ==
    IF d = 0 THEN NaN
    ELSE With(Gcd(Abs(n), Abs(d)) * (IF d < 0 THEN 0 - 1 ELSE 1), LAMBDA g :
             [num |-> n \div g, den |-> d \div g])

\* a number of the program (Null is undefined, which arithmetic turns into NaN)
Num(n) == IF n = Null THEN NaN ELSE [num |-> n, den |-> 1]

\* n ?? 0
OrZero(n) == IF n = Null THEN 0 ELSE n

FMul(x, y) ==
    IF IsNaN(x) \/ IsNaN(y) THEN NaN
    ELSE With(Frac(x.num, y.den), LAMBDA a :
             With(Frac(y.num, x.den), LAMBDA b : Frac(a.num * b.num, a.den * b.den)))

FAdd(x, y) ==
    IF IsNaN(x) \/ IsNaN(y) THEN NaN
    ELSE With(Gcd(x.den, y.den), LAMBDA g :
             Frac(x.num * (y.den \div g) + y.num * (x.den \div g), x.den * (y.den \div g)))

FSub(x, y) == FAdd(x, [num |-> 0 - y.num, den |-> y.den])

FDiv(x, y) ==
    IF IsNaN(x) \/ IsNaN(y) \/ y.num = 0 THEN NaN
    ELSE FMul(x, Frac(y.den, y.num))

FLess(x, y) == x.num * y.den < y.num * x.den

\* Math.floor
FFloor(x) == IF IsNaN(x) THEN NaN ELSE [num |-> x.num \div x.den, den |-> 1]

RECURSIVE FPow(_, _)
FPow(x, k) == IF k <= 0 THEN [num |-> 1, den |-> 1] ELSE FMul(x, FPow(x, k - 1))

RECURSIVE FSum(_)
FSum(xs) ==
    IF xs = <<>> THEN [num |-> 0, den |-> 1]
    ELSE FAdd(FSum(SubSeq(xs, 1, Len(xs) - 1)), xs[Len(xs)])

\* utils.round(x, 4): Math.round to four decimals (a half rounds up)
round4(x) ==
    IF IsNaN(x) THEN NaN
    ELSE Frac((2 * 10000 * x.num + x.den) \div (2 * x.den), 10000)

\* utils.calculateCompoundingGrowth(base, rate, periods) = base (1 + rate)^periods
\* for a whole number of periods; a NaN base or rate counts as 0
calculateCompoundingGrowth(base, rate, periods) ==
    IF IsNaN(periods) THEN NaN
    ELSE FMul(IF IsNaN(base) THEN Num(0) ELSE base,
              FPow(FAdd(Num(1), IF IsNaN(rate) THEN Num(0) ELSE rate),
                   periods.num \div periods.den))

(***************************************************************************)
(* utils.js helpers used by the term-date resolver                         *)
(***************************************************************************)
\* utils.getEarliestDateTime(a, b): the earlier of the dates that are set
getEarliestDateTime(a, b) ==
    IF a = Null THEN b
    ELSE IF b = Null THEN a
    ELSE Min(a, b)

\* utils.plusDuration(term_length_years): a luxon duration of whole years plus
\* the fractional year as days and hours.  term_length_years is held in half
\* years (2 is one year, 3 is 1.5 years): half a year is 182 days 12 hours.
plusDuration(term_length_years) ==
    [years |-> term_length_years \div 2,
     days  |-> IF term_length_years % 2 = 1 THEN 182 ELSE 0,
     hours |-> IF term_length_years % 2 = 1 THEN 12 ELSE 0]

(***************************************************************************)
(* Term Date Resolver: JupiterDoc.calcAgreementTermDates                   *)
(***************************************************************************)
\* agreementTerms.sort((a, b) => a.term_ordinal - b.term_ordinal): a stable
\* insertion of each term after the terms whose ordinal is not larger
RECURSIVE InsertByOrdinal(_, _)
InsertByOrdinal(sorted, term) ==
    IF sorted = <<>> THEN <<term>>
    ELSE IF sorted[Len(sorted)].term_ordinal <= term.term_ordinal
         THEN Append(sorted, term)
         ELSE Append(InsertByOrdinal(SubSeq(sorted, 1, Len(sorted) - 1), term),
                     sorted[Len(sorted)])

RECURSIVE SortByOrdinal(_)
SortByOrdinal(terms) ==
    IF terms = <<>> THEN <<>>
    ELSE InsertByOrdinal(SortByOrdinal(SubSeq(terms, 1, Len(terms) - 1)),
                         terms[Len(terms)])

\* TermStartDate with the successor starting on the day its predecessor ends
TermStartDate_NoGap(term, prev_end, effectiveDate, opDetails) ==
    IF term.term_type = "Construction" /\ ~term.extension
          /\ opDetails.construction_commencement # Null
    THEN opDetails.construction_commencement
    ELSE IF term.term_type = "Operations" /\ ~term.extension
               /\ opDetails.operations_commencement # Null
    THEN opDetails.operations_commencement
    ELSE IF prev_end # Null THEN prev_end
    ELSE IF opDetails.commencement_date # Null THEN opDetails.commencement_date
    ELSE effectiveDate

\* TermStartDate without the operational-milestone override
TermStartDate_NoOverride(term, prev_end, effectiveDate, opDetails) ==
    IF prev_end # Null THEN PlusDays(prev_end, 1)
    ELSE IF opDetails.commencement_date # Null THEN opDetails.commencement_date
    ELSE effectiveDate

\* the start date of the term at `index` of the sorted terms (lines 313-322)
TermStartDate(term, prev_end, effectiveDate, opDetails) ==
    IF term.term_type = "Construction" /\ ~term.extension
          /\ opDetails.construction_commencement # Null
    THEN opDetails.construction_commencement
    ELSE IF term.term_type = "Operations" /\ ~term.extension
               /\ opDetails.operations_commencement # Null
    THEN opDetails.operations_commencement
    ELSE IF prev_end # Null THEN PlusDays(prev_end, 1)
    ELSE IF opDetails.commencement_date # Null THEN opDetails.commencement_date
    ELSE effectiveDate

\* endCalc: start plus the duration, rounded to a whole day, up when the time
\* of day is noon or later (lines 328-336)
EndCalc(term, start_date) ==
    IF term.term_length_years = Null \/ term.term_length_years = 0
    THEN start_date
    ELSE With(plusDuration(term.term_length_years), LAMBDA addDuration :
             PlusDays(PlusDays(PlusYears(start_date, addDuration.years), addDuration.days),
                      IF addDuration.hours >= 12 THEN 1 ELSE 0))

\* TermEndDate without the cap at the termination date
TermEndDate_NoCap(term, start_date, termination) ==
    PlusDays(EndCalc(term, start_date), 0 - 1)

\* end one day prior to the Nth anniversary, or on the termination date,
\* whichever is sooner (line 340)
TermEndDate(term, start_date, termination) ==
    getEarliestDateTime(termination.termination_date,
                        PlusDays(EndCalc(term, start_date), 0 - 1))

\* ApplyOpsDates cancelling terms but never cutting one short
ApplyOpsDates_CancelOnly(term, opDetails) ==
    IF term.term_type # "Construction" /\ term.term_type # "Operations"
    THEN With(getEarliestDateTime(opDetails.construction_commencement,
                                  opDetails.operations_commencement),
              LAMBDA firstOpsDate :
                 IF firstOpsDate # Null /\ term.start_date >= firstOpsDate
                 THEN [term EXCEPT !.cancelled_by_ops = TRUE]
                 ELSE term)
    ELSE term

\* the term cut short or cancelled by the operational dates (lines 342-361)
ApplyOpsDates(term, opDetails) ==
    IF term.term_type # "Construction" /\ term.term_type # "Operations"
    THEN With(getEarliestDateTime(opDetails.construction_commencement,
                                  opDetails.operations_commencement),
              LAMBDA firstOpsDate :
                 IF firstOpsDate = Null THEN term
                 ELSE IF term.start_date >= firstOpsDate
                      THEN [term EXCEPT !.cancelled_by_ops = TRUE]
                 ELSE IF term.end_date >= firstOpsDate
                      THEN [term EXCEPT !.end_date = PlusDays(firstOpsDate, 0 - 1)]
                 ELSE term)
    ELSE IF term.term_type = "Construction" /\ opDetails.operations_commencement # Null
                /\ term.end_date >= opDetails.operations_commencement
         THEN [term EXCEPT !.end_date = PlusDays(opDetails.operations_commencement, 0 - 1)]
    ELSE term

RECURSIVE SumIncrease(_)
SumIncrease(ts) ==
    IF ts = <<>> THEN 0
    ELSE SumIncrease(SubSeq(ts, 1, Len(ts) - 1)) + OrZero(ts[Len(ts)].increase_amount)

\* the product of (1 + escalation_rate / 100) as a fraction
RECURSIVE ProductEscalation(_)
ProductEscalation(ts) ==
    IF ts = <<>> THEN Num(1)
    ELSE FMul(ProductEscalation(SubSeq(ts, 1, Len(ts) - 1)),
              Frac(100 + OrZero(ts[Len(ts)].escalation_rate), 100))

\* Cohort without the test on payment_model
Cohort_AnyModel(agreementTerms, term) ==
    SelectSeq(agreementTerms, LAMBDA x : x.term_ordinal <= term.term_ordinal)

\* the terms of the cohort of `term`: same payment_model, ordinal not larger
Cohort(agreementTerms, term) ==
    SelectSeq(agreementTerms,
              LAMBDA x : x.term_ordinal <= term.term_ordinal
                         /\ x.payment_model = term.payment_model)

\* the callback of the forEach on the term at `index` (lines 313-373): the term
\* with its dates and cumulative values, resolved against the term before it
ResolveTerm(agreementTerms, index, effectiveDate, opDetails, termination) ==
    With(agreementTerms[index], LAMBDA term :
      With(TermStartDate(term,
                         IF index > 1 THEN agreementTerms[index - 1].end_date ELSE Null,
                         effectiveDate, opDetails),
           LAMBDA start_date :
             [ApplyOpsDates([term EXCEPT
                                !.start_date = start_date,
                                !.end_date = TermEndDate(term, start_date, termination)],
                            opDetails)
              EXCEPT
                !.cumulative_increase_amount = SumIncrease(Cohort(agreementTerms, term)),
                !.cumulative_escalation_rate = ProductEscalation(Cohort(agreementTerms, term))]))

\* the forEach over the sorted terms, from `index` on
RECURSIVE ResolveFrom(_, _, _, _, _)
ResolveFrom(agreementTerms, index, effectiveDate, opDetails, termination) ==
    IF index > Len(agreementTerms) THEN agreementTerms
    ELSE ResolveFrom([agreementTerms EXCEPT ![index] =
                         ResolveTerm(agreementTerms, index, effectiveDate, opDetails,
                                     termination)],
                     index + 1, effectiveDate, opDetails, termination)

\* calcAgreementTermDates(agreementTerms, effectiveDate, opDetails, termination):
\* the terms as the call leaves them (sorted in place, each one resolved), or
\* untouched when there is neither an effective nor a commencement date
calcAgreementTermDates(agreementTerms, effectiveDate, opDetails, termination) ==
    IF effectiveDate = Null /\ opDetails.commencement_date = Null
    THEN agreementTerms
    ELSE ResolveFrom(SortByOrdinal(agreementTerms), 1, effectiveDate, opDetails, termination)

(***************************************************************************)
(* Period Calendar                                                         *)
(***************************************************************************)
\* later.diff(earlier, unit) of luxon for earlier <= later, the unit being
\* `mpu` months long: the whole units that fit, plus the rest as a fraction of
\* the unit that follows them
DiffForward(earlier, later, mpu) ==
    With(((YearOf(later) * 12 + MonthOf(later))
          - (YearOf(earlier) * 12 + MonthOf(earlier))) \div mpu, LAMBDA k0 :
      With(IF PlusMonths(earlier, k0 * mpu) > later THEN k0 - 1 ELSE k0, LAMBDA k :
        With(PlusMonths(earlier, k * mpu), LAMBDA cursor :
          FAdd(Num(k), Frac(later - cursor,
                            PlusMonths(earlier, (k + 1) * mpu) - cursor)))))

\* a.diff(b, unit): negative when b is the later date
Diff(a, b, mpu) ==
    IF b > a THEN FSub(Num(0), DiffForward(a, b, mpu)) ELSE DiffForward(b, a, mpu)

\* the switch of calcPaymentPeriodEnd on the frequency (lines 434-457); Null is
\* undefined, as no case assigns
PeriodEndSwitch(start_date, frequency, prorated, term_end) ==
    IF prorated
    THEN IF frequency = "Annually" THEN DateLocal(YearOf(start_date), 12, 31)
         ELSE IF frequency = "Quarterly" THEN PlusDays(PlusMonths(start_date, 3), 0 - 1)
         ELSE IF frequency = "Monthly" THEN PlusDays(PlusMonths(start_date, 1), 0 - 1)
         ELSE Null
    ELSE IF frequency = "Annually" THEN PlusDays(PlusYears(start_date, 1), 0 - 1)
         ELSE IF frequency = "Semiannually" THEN PlusDays(PlusMonths(start_date, 6), 0 - 1)
         ELSE IF frequency = "Quarterly" THEN PlusDays(PlusMonths(start_date, 3), 0 - 1)
         ELSE IF frequency = "Monthly" THEN PlusDays(PlusMonths(start_date, 1), 0 - 1)
         ELSE IF frequency = "Once per Term" THEN term_end
         ELSE Null

\* JupiterDoc.calcPaymentPeriodEnd
calcPaymentPeriodEnd(start_date, frequency, prorated, term_end) ==
    With(PeriodEndSwitch(start_date, frequency, prorated, term_end),
         LAMBDA payment_period_end :
            IF payment_period_end = Null THEN Null
            ELSE IF payment_period_end >= term_end THEN term_end
            ELSE payment_period_end)

\* the pro rata periods of a payment period (part_001 lines 616-627)
ProrataFactor(payment_frequency, payment_period_start, payment_period_end) ==
    IF payment_frequency = "Annually"
    THEN round4(Diff(PlusDays(payment_period_end, 1), payment_period_start, 12))
    ELSE IF payment_frequency = "Semiannually"
    THEN round4(FDiv(Diff(PlusDays(payment_period_end, 1), payment_period_start, 1), Num(6)))
    ELSE IF payment_frequency = "Quarterly"
    THEN round4(Diff(PlusDays(payment_period_end, 1), payment_period_start, 3))
    ELSE IF payment_frequency = "Monthly"
    THEN round4(Diff(PlusDays(payment_period_end, 1), payment_period_start, 1))
    ELSE Num(1)

(***************************************************************************)
(* Payment Schedule Generator: term models                                 *)
(***************************************************************************)
\* JupiterDoc.nicknameGrantor: a name is <<head>> or <<head, tail>>, the tail
\* being what follows the first " and " or ", "
nicknameGrantor(longName) == longName[1]

\* a term payment model as extracted when the fact carries no field; it also
\* stands for "no model" (null / undefined), as its id is Null
NoModel ==
    [id |-> Null, model_type |-> "", payment_frequency |-> "",
     prorated_first_period |-> FALSE, minimum_payment |-> Null,
     payment_per_mw |-> Null, payment_per_mva |-> Null,
     flat_payment_amount |-> Null, payment_per_acre |-> Null,
     periodic_escalation_rate |-> Null, periodic_escalation_frequency |-> "",
     increase_amount |-> Null, first_payment_lag |-> Null,
     subsequent_payment_lag |-> Null, apply_payment_lag_to_extension |-> FALSE,
     payee |-> "", applicable_to_purchase |-> FALSE]

\* JupiterDoc.termPaymentModel; NoModel when there is none.  An absent name is ""
termPaymentModel(term, paymentModels) ==
    IF Len(paymentModels) = 0 THEN NoModel
    ELSE With(IF term.payment_model # "" THEN term.payment_model ELSE term.term_type,
              LAMBDA model_name :
                 IF model_name # ""
                 THEN IF \E j \in 1..Len(paymentModels) :
                            paymentModels[j].model_type = model_name
                      THEN paymentModels[CHOOSE j \in 1..Len(paymentModels) :
                               /\ paymentModels[j].model_type = model_name
                               /\ \A h \in 1..(j - 1) :
                                      paymentModels[h].model_type # model_name]
                      ELSE NoModel
                 ELSE paymentModels[1])

RECURSIVE MaxOf(_)
MaxOf(xs) == IF Len(xs) = 1 THEN xs[1] ELSE Max(xs[1], MaxOf(Tail(xs)))

\* periodicBasePayment adding the cumulative increase after the escalation
periodicBasePayment_IncreaseLast(model, op_details, cumulative_escalation_rate, cumulative_increase_amount, agreement_acres) ==
    IF model = NoModel THEN Num(0)
    ELSE FAdd(FMul(Num(MaxOf(<<
                     OrZero(model.minimum_payment),
                     OrZero(model.payment_per_mw) * OrZero(op_details.mw),
                     OrZero(op_details.inverter_count) * OrZero(op_details.inverter_rating_mvas)
                         * OrZero(model.payment_per_mva),
                     OrZero(model.flat_payment_amount),
                     OrZero(model.payment_per_acre) * OrZero(agreement_acres) >>)),
                   cumulative_escalation_rate),
              Num(cumulative_increase_amount))

\* JupiterDoc.periodicBasePayment
periodicBasePayment(model, op_details, cumulative_escalation_rate, cumulative_increase_amount, agreement_acres) ==
    IF model = NoModel THEN Num(0)
    ELSE FMul(FAdd(Num(MaxOf(<<
                     OrZero(model.minimum_payment),
                     OrZero(model.payment_per_mw) * OrZero(op_details.mw),
                     OrZero(op_details.inverter_count) * OrZero(op_details.inverter_rating_mvas)
                         * OrZero(model.payment_per_mva),
                     OrZero(model.flat_payment_amount),
                     OrZero(model.payment_per_acre) * OrZero(agreement_acres) >>)),
                   Num(cumulative_increase_amount)),
              cumulative_escalation_rate)

\* the terms before `term` on its payment model
PreviousTerms(agreement_terms, term) ==
    SelectSeq(agreement_terms,
              LAMBDA x : x.term_ordinal < term.term_ordinal
                         /\ x.payment_model = term.payment_model)

\* previous_periods: the years of the previous terms (term_length_years is in
\* half years), counted only under annual periodic escalation (lines 579-586)
RECURSIVE SumLengths(_)
SumLengths(ts) ==
    IF ts = <<>> THEN Num(0)
    ELSE FAdd(SumLengths(SubSeq(ts, 1, Len(ts) - 1)),
              IF ts[Len(ts)].term_length_years = Null THEN NaN
              ELSE Frac(ts[Len(ts)].term_length_years, 2))

PreviousPeriods(agreement_terms, term, model) ==
    IF model.periodic_escalation_frequency = "Annually"
    THEN SumLengths(PreviousTerms(agreement_terms, term))
    ELSE Num(0)

\* ratioFactors[frequency]
RatioFactor(frequency) ==
    IF frequency = "Annually" THEN Num(1)
    ELSE IF frequency = "Semiannually" THEN Num(2)
    ELSE IF frequency = "Quarterly" THEN Num(4)
    ELSE IF frequency = "Monthly" THEN Num(12)
    ELSE NaN

\* periodic_escalation_frequency_index (lines 639-644)
EscalationFrequencyIndex(model) ==
    IF model.payment_frequency # "" /\ model.periodic_escalation_frequency # ""
    THEN FDiv(RatioFactor(model.payment_frequency),
              RatioFactor(model.periodic_escalation_frequency))
    ELSE Num(1)

\* the first payment date of a term (lines 588-602)
FirstPaymentDate(term) ==
    IF term.first_payment_start = "Start with Term" THEN term.start_date
    ELSE IF term.first_payment_start = "Start next Jan 1 after Term commencement"
    THEN DateLocal(YearOf(term.start_date) + 1, 1, 1)
    ELSE IF term.first_payment_start = "Start 1st of month after commencement"
    THEN PlusMonths(DateLocal(YearOf(term.start_date), MonthOf(term.start_date), 1), 1)
    ELSE IF term.first_payment_date # Null THEN term.first_payment_date
    ELSE term.start_date

\* late_payment_date of the payment with index i (lines 646-654)
LatePaymentDate(i, payment_date, term, model) ==
    IF i = 0 /\ OrZero(model.first_payment_lag) # 0
          /\ (~term.extension \/ model.apply_payment_lag_to_extension)
    THEN PlusDays(payment_date, model.first_payment_lag)
    ELSE IF i > 0 /\ OrZero(model.subsequent_payment_lag) # 0
               /\ (~term.extension \/ model.apply_payment_lag_to_extension)
    THEN PlusDays(payment_date, model.subsequent_payment_lag)
    ELSE Null

\* the share of a grantor in the standard and date-based generators:
\* (g.payment_split ?? 100 / grantor.length) / 100
GrantorShare(g, grantor) ==
    IF g.payment_split # Null THEN Frac(g.payment_split, 100)
    ELSE FDiv(Frac(100, Len(grantor)), Num(100))

\* the number of compounding periods of payment i of a term (line 670):
\* Math.floor((previous_periods + i) / periodic_escalation_frequency_index)
CompoundingPeriods(self, term, model, i) ==
    FFloor(FDiv(FAdd(PreviousPeriods(self.agreement_terms, term, model), Num(i)),
                EscalationFrequencyIndex(model)))

\* payment_amount of the event of one grantor (lines 666-671), `share` being
\* (g.payment_split ?? 100 / grantor.length) / 100
StdPaymentAmount(self, term, model, i, prorata_factor, share) ==
    FMul(calculateCompoundingGrowth(
             FMul(FAdd(periodicBasePayment(model, self.operational_details,
                                           term.cumulative_escalation_rate,
                                           term.cumulative_increase_amount,
                                           self.total_controlled_acres),
                       Num(OrZero(model.increase_amount) * i)),
                  share),
             Frac(OrZero(model.periodic_escalation_rate), 100),
             CompoundingPeriods(self, term, model, i)),
         prorata_factor)

\* the events of one payment instant of the standard generator, one per
\* grantor (lines 656-682)
StdEvents(self, term, model, i, payment_date, payment_period_start, payment_period_end) ==
    With(ProrataFactor(model.payment_frequency, payment_period_start, payment_period_end),
         LAMBDA prorata_factor :
           [n \in 1..Len(self.grantor) |->
              [payment_source |-> "Term Model",
               model_id |-> model.id,
               payment_index |-> i,
               payment_date |-> payment_date,
               late_payment_date |-> LatePaymentDate(i, payment_date, term, model),
               payment_amount |-> StdPaymentAmount(self, term, model, i, prorata_factor,
                                      GrantorShare(self.grantor[n], self.grantor)),
               payee |-> IF model.payee # "" THEN model.payee
                         ELSE nicknameGrantor(self.grantor[n].name),
               payment_period_start |-> payment_period_start,
               payment_period_end |-> payment_period_end,
               prorata_factor |-> prorata_factor,
               applicable_to_purchase |-> model.applicable_to_purchase,
               refundable |-> FALSE,
               after_outside_date |-> IF self.outside_date # Null
                                      THEN payment_date > self.outside_date ELSE FALSE]])

(***************************************************************************)
(* Blended generator                                                       *)
(***************************************************************************)
\* whole years from `anchor` to `t` (the escalation year of day t)
SegmentOf(anchor, t) ==
    IF t < anchor THEN 0
    ELSE IF PlusYears(anchor, YearOf(t) - YearOf(anchor)) > t
    THEN YearOf(t) - YearOf(anchor) - 1
    ELSE YearOf(t) - YearOf(anchor)

\* the part of base (1 + rate)^k that the days min_date..last of the
\* escalation year k earn, each day weighing one day of that year
SegmentAmount(min_date, last, anchor, k, rate, basePayment) ==
    FMul(FMul(basePayment, FPow(FAdd(Num(1), rate), k)),
         Frac(last - min_date + 1, PlusYears(anchor, k + 1) - PlusYears(anchor, k)))

\* the last day of min_date..max_date in the escalation year k
SegmentLast(max_date, anchor, k) ==
    Min(max_date, PlusDays(PlusYears(anchor, k + 1), 0 - 1))

\* the amount the days min_date..max_date earn, summed over the escalation
\* years they lie in
RECURSIVE BlendedAmount(_, _, _, _, _)
BlendedAmount(min_date, max_date, anchor, rate, basePayment) ==
    IF min_date > max_date THEN Num(0)
    ELSE With(SegmentOf(anchor, min_date), LAMBDA k :
           With(SegmentLast(max_date, anchor, k), LAMBDA last :
             FAdd(SegmentAmount(min_date, last, anchor, k, rate, basePayment),
                  BlendedAmount(PlusDays(last, 1), max_date, anchor, rate, basePayment))))

\* utils.blendedEscalation: one payment per calendar year of the term, the
\* first one prorated from the term start, each the day-weighted blend of the
\* escalated base payments of the escalation years it straddles
RECURSIVE blendedFrom(_, _, _, _, _, _)
blendedFrom(index, min_date, end_date, anchor, rate, basePayment) ==
    IF min_date > end_date THEN <<>>
    ELSE With(Min(end_date, DateLocal(YearOf(min_date), 12, 31)), LAMBDA max_date :
           <<[payment_index |-> index,
              payment_date |-> min_date,
              total_payment |-> BlendedAmount(min_date, max_date, anchor, rate, basePayment),
              min_date |-> min_date,
              max_date |-> max_date,
              date_count |-> max_date - min_date + 1]>>
           \o blendedFrom(index + 1, PlusDays(max_date, 1), end_date, anchor, rate,
                          basePayment))

blendedEscalation(start_date, end_date, prorated_first_period, escalationStart, rate, basePayment, first_payment_start) ==
    blendedFrom(0, start_date, end_date, escalationStart, rate, basePayment)

\* the share of a grantor in the blended generator:
\* (g.payment_split ?? 100) / grantor.length / 100
BlendedGrantorShare(g, grantor) ==
    FDiv(FDiv(Num(IF g.payment_split # Null THEN g.payment_split ELSE 100),
              Num(Len(grantor))),
         Num(100))

\* late_payment_date of a blended payment (lines 508-516): p._payment_index is
\* undefined, so the test of a later index never holds
BlendedLatePaymentDate(p, term, model) ==
    IF p.payment_index = 0 /\ OrZero(model.first_payment_lag) # 0
          /\ (~term.extension \/ model.apply_payment_lag_to_extension)
    THEN PlusDays(p.payment_date, model.first_payment_lag)
    ELSE Null

RECURSIVE Flat(_)
Flat(xss) == IF xss = <<>> THEN <<>> ELSE Head(xss) \o Flat(Tail(xss))

\* escalationStart (lines 492-494): the start date of the first term on the
\* payment model of `term`
EscalationStart(agreement_terms, term) ==
    With(SortByOrdinal(PreviousTerms(agreement_terms, term)),
         LAMBDA previousEscalationTerms :
            IF previousEscalationTerms # <<>> /\ previousEscalationTerms[1].start_date # Null
            THEN previousEscalationTerms[1].start_date
            ELSE term.start_date)

\* the events of one blended payment p, one per grantor (lines 507-538)
BlendedEvents(self, term, model, p) ==
    [n \in 1..Len(self.grantor) |->
       [payment_source |-> "Term Model",
        model_id |-> model.id,
        payment_index |-> p.payment_index,
        payment_date |-> p.payment_date,
        late_payment_date |-> BlendedLatePaymentDate(p, term, model),
        payment_amount |->
            FMul(p.total_payment, BlendedGrantorShare(self.grantor[n], self.grantor)),
        payee |-> IF model.payee # "" THEN model.payee
                  ELSE nicknameGrantor(self.grantor[n].name),
        payment_period_start |-> p.min_date,
        payment_period_end |-> p.max_date,
        prorata_factor |-> Frac(p.date_count, DaysInYear(YearOf(p.payment_date))),
        applicable_to_purchase |-> model.applicable_to_purchase,
        refundable |-> FALSE,
        after_outside_date |->
            IF self.outside_date # Null
            THEN p.payment_date > self.outside_date ELSE FALSE]]

\* the payments utils.blendedEscalation returns for the term (lines 483-505)
BlendedPayments(self, term, model) ==
    blendedEscalation(term.start_date, term.end_date, model.prorated_first_period,
                      EscalationStart(self.agreement_terms, term),
                      Frac(OrZero(model.periodic_escalation_rate), 100),
                      periodicBasePayment(model, self.operational_details,
                                          term.cumulative_escalation_rate,
                                          term.cumulative_increase_amount,
                                          self.total_controlled_acres),
                      term.first_payment_start)

\* the flattened map over the blended payments (lines 507-540)
BlendedMap(self, term, model, blendedPayments) ==
    Flat([j \in 1..Len(blendedPayments) |->
             BlendedEvents(self, term, model, blendedPayments[j])])

\* JupiterDoc.calcBlendedPeriodicPaymentsForTerm (null is <<>>)
calcBlendedPeriodicPaymentsForTerm(self, term) ==
    With(termPaymentModel(term, self.term_payment_models), LAMBDA model :
        IF term.cancelled_by_ops \/ Len(self.grantor) = 0 THEN <<>>
        ELSE IF model = NoModel \/ term.start_date = Null \/ term.end_date = Null THEN <<>>
        ELSE BlendedMap(self, term, model, BlendedPayments(self, term, model)))

(***************************************************************************)
(* Standard generator: JupiterDoc.calcPeriodicPaymentsForTerm              *)
(***************************************************************************)
\* the local variables of the loop when it is entered (lines 569-602)
StdLoopInit(term) ==
    [i |-> 0, payment_period_start |-> term.start_date,
     payment_date |-> FirstPaymentDate(term), payments |-> <<>>,
     result |-> "running"]

\* one evaluation of the while loop (lines 605-687): the loop is left by its
\* condition or by the break ("returned"), or the function returns undefined
\* as no period end could be computed ("undefined"), or one instant is emitted
StdLoopStep(self, term, model, st) ==
    IF ~(st.payment_period_start < term.end_date) THEN [st EXCEPT !.result = "returned"]
    ELSE IF self.date_purchased # Null /\ st.payment_period_start > self.date_purchased
    THEN [st EXCEPT !.result = "returned"]
    ELSE With(calcPaymentPeriodEnd(st.payment_date, model.payment_frequency,
                                   model.prorated_first_period, term.end_date),
              LAMBDA payment_period_end :
                 IF payment_period_end = Null THEN [st EXCEPT !.result = "undefined"]
                 ELSE [st EXCEPT
                         !.payments = st.payments \o
                             StdEvents(self, term, model, st.i, st.payment_date,
                                       st.payment_period_start, payment_period_end),
                         !.payment_period_start = PlusDays(payment_period_end, 1),
                         !.payment_date = PlusDays(payment_period_end, 1),
                         !.i = st.i + 1])

RECURSIVE StdLoopRun(_, _, _, _)
StdLoopRun(self, term, model, st) ==
    IF st.result # "running" THEN st
    ELSE StdLoopRun(self, term, model, StdLoopStep(self, term, model, st))

\* the function leaves before its loop, returning null (lines 545-564)
StdLeavesEarly(self, term, model) ==
    \/ term.cancelled_by_ops
    \/ Len(self.grantor) = 0
    \/ model = NoModel
    \/ term.start_date = Null
    \/ term.end_date = Null

\* payments.sort((a, b) => a.payment_date - b.payment_date): payment_date holds
\* toLocaleString() texts, whose difference is NaN, which sort takes as "equal":
\* the stable sort keeps the order of insertion
SortPayments(payments) == payments

\* what the function returns once its loop is left (null and undefined are <<>>)
StdResult(st) == IF st.result = "undefined" THEN <<>> ELSE SortPayments(st.payments)

\* the value calcPeriodicPaymentsForTerm returns
calcPeriodicPaymentsForTerm(self, term) ==
    With(termPaymentModel(term, self.term_payment_models), LAMBDA model :
        IF StdLeavesEarly(self, term, model) THEN <<>>
        ELSE StdResult(StdLoopRun(self, term, model, StdLoopInit(term))))

\* calcAllTermPayments picks the blended generator for the model (line 707)
UsesBlended(model) ==
    model.prorated_first_period /\ OrZero(model.periodic_escalation_rate) > 0

\* what calcAllTermPayments leaves in term.periodic_payments (lines 701-729)
TermPeriodicPayments(self, term) ==
    With(termPaymentModel(term, self.term_payment_models), LAMBDA model :
        IF model = NoModel THEN term.periodic_payments
        ELSE IF UsesBlended(model) THEN calcBlendedPeriodicPaymentsForTerm(self, term)
        ELSE calcPeriodicPaymentsForTerm(self, term))

\* JupiterDoc.calcAllTermPayments, as one call
calcAllTermPayments(self) ==
    [self EXCEPT !.agreement_terms =
        [k \in 1..Len(self.agreement_terms) |->
            [self.agreement_terms[k] EXCEPT
                !.periodic_payments = TermPeriodicPayments(self, self.agreement_terms[k])]]]

(***************************************************************************)
(* Date-based generator: JupiterDoc.calcDatePayments                       *)
(***************************************************************************)
\* a date payment model as extracted when the fact carries no field
NoDateModel ==
    [id |-> Null, date_one_time |-> Null, date_begin |-> Null, date_end |-> Null,
     frequency |-> "", payment_amount |-> Null, increase_amount |-> Null,
     periodic_escalation_rate |-> Null, first_payment_lag |-> Null,
     subsequent_payment_lag |-> Null, refundable |-> FALSE,
     applicable_to_purchase |-> FALSE, payment_type |-> "", payee |-> ""]

\* utils.getEarliestDateTimeFromArray: the earliest of the dates that are set
RECURSIVE getEarliestDateTimeFromArray(_)
getEarliestDateTimeFromArray(dates) ==
    IF dates = <<>> THEN Null
    ELSE getEarliestDateTime(Head(dates), getEarliestDateTimeFromArray(Tail(dates)))

\* the model is skipped for its missing fields (line 738)
DateModelSkipped(self, model) ==
    \/ /\ ~(model.date_begin # Null /\ model.date_end # Null /\ model.frequency # "")
       /\ model.date_one_time = Null
    \/ OrZero(model.payment_amount) = 0
    \/ Len(self.grantor) = 0

\* DateLoopInit with the termination date left out of the end of the loop
DateLoopInit_IgnoringTermination(self, model) ==
    [payment_date |-> IF model.date_one_time # Null THEN model.date_one_time
                      ELSE model.date_begin,
     payment_date_end |-> getEarliestDateTimeFromArray(
         <<model.date_one_time, model.date_end>>),
     period |-> 1, payments |-> <<>>, result |-> "running"]

DateLoopInit(self, model) ==
    [payment_date |-> IF model.date_one_time # Null THEN model.date_one_time
                      ELSE model.date_begin,
     payment_date_end |-> getEarliestDateTimeFromArray(
         <<self.termination.termination_date, model.date_one_time, model.date_end>>),
     period |-> 1, payments |-> <<>>, result |-> "running"]

\* the total of one payment instant of a date model, before the split
DateTotalAmount(model, period) ==
    calculateCompoundingGrowth(
        Num(model.payment_amount + OrZero(model.increase_amount) * (period - 1)),
        Frac(OrZero(model.periodic_escalation_rate), 100),
        Num(period))

DateLatePaymentDate(model, period, payment_date) ==
    IF period = 1 /\ OrZero(model.first_payment_lag) # 0
    THEN PlusDays(payment_date, model.first_payment_lag)
    ELSE IF period > 1 /\ OrZero(model.subsequent_payment_lag) # 0
    THEN PlusDays(payment_date, model.subsequent_payment_lag)
    ELSE Null

\* the events of one payment instant of a date model (lines 770-790)
DateEvents(self, model, period, payment_date) ==
    [n \in 1..Len(self.grantor) |->
        [payment_source |-> IF model.date_one_time # Null THEN "Date Model (One Time)"
                            ELSE "Date Model",
         model_id |-> model.id,
         payment_index |-> period - 1,
         payment_date |-> payment_date,
         late_payment_date |-> DateLatePaymentDate(model, period, payment_date),
         payment_amount |-> FMul(DateTotalAmount(model, period),
                                 GrantorShare(self.grantor[n], self.grantor)),
         payee |-> IF model.payee # "" THEN model.payee
                   ELSE nicknameGrantor(self.grantor[n].name),
         payment_period_start |-> Null,
         payment_period_end |-> Null,
         prorata_factor |-> NaN,
         applicable_to_purchase |-> model.applicable_to_purchase,
         refundable |-> model.refundable,
         after_outside_date |-> IF self.outside_date # Null
                                THEN payment_date > self.outside_date ELSE FALSE]]

\* the payment date one period later; Null for a frequency that is not listed
DateAdvance(payment_date, frequency) ==
    IF frequency = "Annually" THEN PlusYears(payment_date, 1)
    ELSE IF frequency = "Semiannually" THEN PlusMonths(payment_date, 6)
    ELSE IF frequency = "Quarterly" THEN PlusMonths(payment_date, 3)
    ELSE IF frequency = "Monthly" THEN PlusMonths(payment_date, 1)
    ELSE Null

\* one evaluation of the while loop of a model (lines 749-809): the loop is
\* left ("returned"), or an instant is emitted and then either the date moves
\* on or the callback returns for its frequency ("aborted")
DateLoopStep(self, model, st) ==
    IF ~(st.payment_date <= st.payment_date_end) THEN [st EXCEPT !.result = "returned"]
    ELSE IF self.date_purchased # Null /\ st.payment_date > self.date_purchased
    THEN [st EXCEPT !.result = "returned"]
    ELSE With(DateAdvance(st.payment_date, model.frequency), LAMBDA next :
             [st EXCEPT
                !.payments = st.payments \o
                    DateEvents(self, model, st.period, st.payment_date),
                !.period = st.period + 1,
                !.payment_date = IF next = Null THEN st.payment_date ELSE next,
                !.result = IF next = Null THEN "aborted" ELSE "running"])

RECURSIVE DateLoopRun(_, _, _)
DateLoopRun(self, model, st) ==
    IF st.result # "running" THEN st
    ELSE DateLoopRun(self, model, DateLoopStep(self, model, st))

\* the events a date payment model adds to date_payments
DateModelPayments(self, model) ==
    IF DateModelSkipped(self, model) THEN <<>>
    ELSE DateLoopRun(self, model, DateLoopInit(self, model)).payments

\* JupiterDoc.calcDatePayments, as one call
calcDatePayments(self) ==
    [self EXCEPT !.date_payments =
        Flat([m \in 1..Len(self.date_payment_models) |->
                 DateModelPayments(self, self.date_payment_models[m])])]

(***************************************************************************)
(* Purchase-Price Settlement: JupiterDoc.calcEstimatedPurchasePrice        *)
(***************************************************************************)
\* the sum of payment_amount over the events flagged applicable_to_purchase
ApplicableSum(events) ==
    FSum([j \in 1..Len(events) |->
             IF events[j].applicable_to_purchase THEN events[j].payment_amount
             ELSE Num(0)])

\* previous_applicable_payments counting the events of the terms only
PreviousApplicablePayments_TermsOnly(self) ==
    FSum([k \in 1..Len(self.agreement_terms) |->
             ApplicableSum(self.agreement_terms[k].periodic_payments)])

\* previous_applicable_payments (lines 824-840)
PreviousApplicablePayments(self) ==
    FAdd(FSum([k \in 1..Len(self.agreement_terms) |->
                  ApplicableSum(self.agreement_terms[k].periodic_payments)]),
         ApplicableSum(self.date_payments))

\* this.date_purchased ?? this.estimated_closing_date
ClosingDate(self) ==
    IF self.date_purchased # Null THEN self.date_purchased
    ELSE self.estimated_closing_date

\* the settlement events, one per grantor (lines 845-858)
SettlementEvents(self) ==
    [n \in 1..Len(self.grantor) |->
        [payment_source |-> "Purchase Price Calculation",
         model_id |-> Null,
         payment_index |-> Null,
         payment_date |-> ClosingDate(self),
         late_payment_date |-> Null,
         payment_amount |->
             FMul(FSub(Num(self.full_purchase_price), PreviousApplicablePayments(self)),
                  GrantorShare(self.grantor[n], self.grantor)),
         payee |-> nicknameGrantor(self.grantor[n].name),
         payment_period_start |-> Null,
         payment_period_end |-> Null,
         prorata_factor |-> NaN,
         applicable_to_purchase |-> TRUE,
         refundable |-> FALSE,
         after_outside_date |-> FALSE]]

\* SettlementDue without the test of the termination date
SettlementDue_IgnoringTermination(self) ==
    /\ OrZero(self.full_purchase_price) # 0
    /\ ClosingDate(self) # Null

\* the settlement is emitted (lines 820 and 844)
SettlementDue(self) ==
    /\ OrZero(self.full_purchase_price) # 0
    /\ ~(self.estimated_closing_date = Null /\ self.date_purchased = Null)
    /\ ClosingDate(self) # Null
    /\ self.termination.termination_date = Null

calcEstimatedPurchasePrice(self) ==
    IF SettlementDue(self)
    THEN [self EXCEPT !.date_payments = self.date_payments \o SettlementEvents(self)]
    ELSE self

(***************************************************************************)
(* Documents                                                               *)
(***************************************************************************)
\* an agreement term as extracted (the computed properties not yet set; a null
\* or undefined periodic_payments is the empty list of events)
NewTerm(ordinal, type, ext, len) ==
    [term_ordinal |-> ordinal, term_type |-> type, extension |-> ext,
     term_length_years |-> len, payment_model |-> type,
     first_payment_start |-> "Start with Term", first_payment_date |-> Null,
     increase_amount |-> Null, escalation_rate |-> Null,
     start_date |-> Null, end_date |-> Null, cancelled_by_ops |-> FALSE,
     cumulative_increase_amount |-> Null, cumulative_escalation_rate |-> NaN,
     periodic_payments |-> <<>>]

NoOpDetails ==
    [commencement_date |-> Null, construction_commencement |-> Null,
     operations_commencement |-> Null, mw |-> Null, inverter_count |-> Null,
     inverter_rating_mvas |-> Null]

\* this.termination (line 215): the termination date of the Termination fact
\* and the number of its fields, none when the document has no such fact
Termination(termination_date, other_fields) ==
    [termination_date |-> termination_date,
     keys |-> (IF termination_date # Null THEN 1 ELSE 0) + other_fields]

\* a field that the extracted object does not have (undefined), beside Null
\* for a field that is null
Undefined == 0 - 2

\* a property description as extracted
NewDescription(agreement_acres, exclude) ==
    [agreement_acres |-> agreement_acres,
     exclude_acres_from_controlled_acres |-> exclude]

\* acc + (!desc.exclude_acres_from_controlled_acres ? desc.agreement_acres : 0) || 0
\* (line 186): adding undefined gives NaN, which || turns into 0
ControlledAcresStep(acc, desc) ==
    IF desc.exclude_acres_from_controlled_acres THEN acc
    ELSE IF desc.agreement_acres = Undefined THEN 0
    ELSE acc + OrZero(desc.agreement_acres)

\* this.total_controlled_acres: the reduce over the property descriptions from
\* the first to the last, starting at 0 (lines 185-187)
RECURSIVE ControlledAcres(_)
ControlledAcres(property_description) ==
    IF property_description = <<>> THEN 0
    ELSE ControlledAcresStep(
             ControlledAcres(SubSeq(property_description, 1, Len(property_description) - 1)),
             property_description[Len(property_description)])

\* an array of documents that is not set (undefined)
NoDocs == [set |-> FALSE, ids |-> <<>>]

\* a JupiterDoc as its constructor leaves it when the document carries no facts
EmptyDoc(id) ==
    [id |-> id, agreement_group |-> Null, effective_date |-> Null,
     amendment_date |-> Null, letter_date |-> Null, deed_date |-> Null,
     payment_directive_date |-> Null, recorded_date |-> Null,
     outside_date |-> Null, property_description |-> <<>>,
     jupiter_entity |-> Null, grantee |-> Null, grantor |-> <<>>,
     full_purchase_price |-> Null, estimated_closing_date |-> Null,
     date_purchased |-> Null, date_sold |-> Null,
     operational_details |-> NoOpDetails,
     total_controlled_acres |-> 0,
     agreement_terms |-> <<>>, term_payment_models |-> <<>>,
     date_payment_models |-> <<>>, date_payments |-> <<>>,
     termination |-> Termination(Null, 0),
     review_status |-> Null, review_status_doc_id |-> Null,
     sort_date |-> Null, amendment_ordinal |-> Null,
     amendments |-> NoDocs,
     payment_directives |-> NoDocs, recorded_docs |-> NoDocs,
     letters |-> NoDocs, deeds |-> NoDocs,
     total_agreement_acres |-> Null,
     terms_owner |-> Null]

\* this.agreement_terms = amendment.agreement_terms (line 950) makes the base
\* share the array of the amendment: terms_owner is the id of the document whose
\* array agreement_terms is (Null: its own), and what the base does to its
\* terms is done to the terms of that document
SyncTerms(docs, self) ==
    [j \in 1..Len(docs) |->
        IF docs[j].id = self.terms_owner
        THEN [docs[j] EXCEPT !.agreement_terms = self.agreement_terms]
        ELSE docs[j]]

NoGen == [kind |-> "none"]

\* history of the run: the number of processAmendments calls made on the base,
\* and whether findOtherDocs was called on it
NoSnap == [amend_calls |-> 0, find_called |-> FALSE]

(***************************************************************************)
(* Term-date resolution of one agreement                                   *)
(***************************************************************************)
\* the largest number of terms of an agreement
MaxTerms == 2

\* term_type and extension of a term
TermKinds ==
    {<<"Option", FALSE>>, <<"Construction", FALSE>>, <<"Construction", TRUE>>,
     <<"Operations", FALSE>>}

\* term lengths in half years, Null when the fact is missing
TermLengths == {Null, 1, 2}

EffectiveDate == DateLocal(2024, 3, 1)

ConstructionDates == {Null, DateLocal(2024, 1, 10), DateLocal(2024, 9, 1)}

OperationsDates == {Null, DateLocal(2024, 6, 15), DateLocal(2025, 6, 1)}

TerminationDates == {Null, DateLocal(2024, 2, 1), DateLocal(2024, 11, 15)}

\* the terms of an agreement, as extracted: ordinals 1..n, listed in ascending
\* or in descending order
TermLists ==
    UNION {
        LET asc == [1..n -> TermKinds \X TermLengths]
        IN  { [i \in 1..n |-> NewTerm(i, f[i][1][1], f[i][1][2], f[i][2])] : f \in asc }
            \cup
            { [i \in 1..n |-> NewTerm(n + 1 - i, f[n + 1 - i][1][1], f[n + 1 - i][1][2],
                                      f[n + 1 - i][2])] : f \in asc }
        : n \in 1..MaxTerms }

InitTerms ==
    /\ \E terms \in TermLists, cc \in ConstructionDates, oc \in OperationsDates,
          td \in TerminationDates,
          ec \in {<<EffectiveDate, Null>>, <<EffectiveDate, DateLocal(2024, 4, 1)>>,
                  <<Null, Null>>} :
          /\ (ec[1] = Null) => (cc = Null /\ oc = Null /\ td = Null)
          /\ doc = [EmptyDoc(1) EXCEPT
                   !.effective_date = ec[1],
                   !.agreement_terms = terms,
                   !.operational_details = [NoOpDetails EXCEPT
                        !.commencement_date = ec[2],
                        !.construction_commencement = cc,
                        !.operations_commencement = oc],
                   !.termination = Termination(td, 0)]
    /\ others = <<>>
    /\ pc = "constructed"
    /\ gen = NoGen
    /\ snap = NoSnap

\* this.calcAgreementTermDates(this.agreement_terms, this.effective_date,
\*                             this.operational_details, this.termination)
CalcAgreementTermDates ==
    /\ pc \in {"constructed", "amended"}
    /\ doc' = [doc EXCEPT !.agreement_terms =
                  calcAgreementTermDates(doc.agreement_terms, doc.effective_date,
                                         doc.operational_details, doc.termination)]
    /\ others' = SyncTerms(others, doc')
    /\ pc' = "dated"
    /\ UNCHANGED <<gen, snap>>

NextTerms == CalcAgreementTermDates

SpecTerms == InitTerms /\ [][NextTerms]_vars

\* the resolver ran and did not leave early
Resolved ==
    /\ pc = "dated"
    /\ ~(doc.effective_date = Null /\ doc.operational_details.commencement_date = Null)

\* the start of the term was set by an operational-milestone override
StartOverridden(term) ==
    \/ /\ term.term_type = "Construction" /\ ~term.extension
       /\ doc.operational_details.construction_commencement # Null
    \/ /\ term.term_type = "Operations" /\ ~term.extension
       /\ doc.operational_details.operations_commencement # Null

\* C3: after calcAgreementTermDates every term has end_date on or after its
\* start_date, whatever the term lengths (a missing one included), the
\* operational commencement dates and the termination date
C3_EndNotBeforeStart ==
    Resolved =>
        \A i \in 1..Len(doc.agreement_terms) :
            doc.agreement_terms[i].end_date >= doc.agreement_terms[i].start_date

\* C4: for every pair of terms consecutive in ordinal order the later term
\* starts strictly after the earlier term's end_date, unless the later term's
\* start was set by an operational-milestone override
C4_StartAfterPreviousEnd ==
    Resolved =>
        \A i \in 2..Len(doc.agreement_terms) :
            \/ StartOverridden(doc.agreement_terms[i])
            \/ /\ doc.agreement_terms[i - 1].term_ordinal < doc.agreement_terms[i].term_ordinal
               /\ doc.agreement_terms[i].start_date > doc.agreement_terms[i - 1].end_date

\* C4's case: a second term without override, after a first term that the
\* operational dates cut short
C4_Witness ==
    /\ Resolved
    /\ Len(doc.agreement_terms) >= 2
    /\ ~StartOverridden(doc.agreement_terms[2])
    /\ doc.agreement_terms[1].term_type = "Option"
    /\ doc.agreement_terms[1].end_date = PlusDays(DateLocal(2024, 6, 15), 0 - 1)
    /\ doc.agreement_terms[2].start_date = DateLocal(2024, 6, 15)

\* C5: when a termination date is set every term's end_date is on or before
\* it, the terms truncated by an operational commencement date included
C5_EndNotAfterTermination ==
    (Resolved /\ doc.termination.termination_date # Null) =>
        \A i \in 1..Len(doc.agreement_terms) :
            doc.agreement_terms[i].end_date <= doc.termination.termination_date

\* C5's case: a termination date caps one term, and another term is cut short
\* by an operational commencement date
C5_Witness ==
    /\ Resolved
    /\ doc.termination.termination_date = DateLocal(2024, 11, 15)
    /\ \E i \in 1..Len(doc.agreement_terms) :
          /\ doc.agreement_terms[i].term_type = "Option"
          /\ ~doc.agreement_terms[i].cancelled_by_ops
          /\ doc.agreement_terms[i].end_date = PlusDays(DateLocal(2024, 6, 15), 0 - 1)
    /\ \E i \in 1..Len(doc.agreement_terms) :
          /\ doc.agreement_terms[i].end_date = doc.termination.termination_date
          /\ doc.agreement_terms[i].start_date < doc.agreement_terms[i].end_date

(***************************************************************************)
(* Schedule generation of one agreement, loop iteration by loop iteration  *)
(***************************************************************************)
\* the largest number of grantors and of date payment models of an agreement
MaxGrantors == 2
MaxDateModels == 2

\* n grantors without payment_split
EqualGrantors(n) ==
    [j \in 1..n |-> [name |-> <<"Grantor", "Spouse">>, payment_split |-> Null]]

\* n grantors whose payment_split values sum to 100
SplitGrantors(n) ==
    [j \in 1..n |-> [name |-> <<"Grantor">>,
                     payment_split |-> IF j = 1 THEN 100 - 10 * (n - 1) ELSE 10]]

GrantorLists ==
    {<<>>} \cup {EqualGrantors(n) : n \in 1..MaxGrantors}
           \cup {SplitGrantors(n) : n \in 2..MaxGrantors}

Frequencies ==
    {"Annually", "Semiannually", "Quarterly", "Monthly", "Once per Term", "Weekly", ""}

FirstPaymentStarts ==
    {"Start with Term", "Start next Jan 1 after Term commencement",
     "Start 1st of month after commencement", ""}

\* the terms of the agreement: one Option term of half a year or a year, a
\* one-year or two-year term with an extension on the same payment model, or
\* a half-year term followed by a term that no payment model is for
GenTermLists(policy, first_payment_date) ==
    LET term(ordinal, ext, len) ==
            [NewTerm(ordinal, "Option", ext, len) EXCEPT
                !.first_payment_start = policy,
                !.first_payment_date = first_payment_date]
    IN  {<<term(1, FALSE, 1)>>, <<term(1, FALSE, 2)>>,
         <<term(1, FALSE, 2), term(2, TRUE, 1)>>,
         <<term(1, FALSE, 4), term(2, TRUE, 1)>>,
         <<term(1, FALSE, 1), NewTerm(2, "Operations", FALSE, 2)>>}

GenTermModel(freq, prorated, escalation) ==
    [NoModel EXCEPT
        !.id = 1, !.model_type = "Option", !.payment_frequency = freq,
        !.prorated_first_period = prorated, !.flat_payment_amount = 1200,
        !.periodic_escalation_rate = escalation[1],
        !.periodic_escalation_frequency = escalation[2],
        !.first_payment_lag = 30, !.subsequent_payment_lag = 10,
        !.applicable_to_purchase = TRUE]

\* an agreement with term payments only
InitGenTerms ==
    \E start \in {DateLocal(2024, 1, 1), DateLocal(2024, 1, 31)},
       policy \in FirstPaymentStarts,
       fpd \in {Null, DateLocal(2023, 11, 15)},
       freq \in Frequencies, prorated \in BOOLEAN,
       escalation \in {<<Null, "">>, <<100, "">>, <<100, "Annually">>},
       grantor \in GrantorLists,
       purchased \in {Null, DateLocal(2024, 5, 10)},
       estimated \in {Null, DateLocal(2024, 5, 10)} :
       /\ (estimated # Null) =>
             /\ purchased = Null /\ start = DateLocal(2024, 1, 1)
             /\ policy = "Start with Term" /\ ~prorated /\ escalation = <<Null, "">>
       /\ (fpd # Null) => (policy = "")
       /\ (escalation = <<100, "">>) => (freq # "Monthly")
       /\ (start # DateLocal(2024, 1, 1)) => (purchased = Null /\ escalation[2] = "")
       /\ \E terms \in GenTermLists(policy, fpd) :
             /\ (terms[1].term_length_years = 4) =>
                   /\ escalation[2] = "Annually" /\ policy = "Start with Term"
                   /\ ~prorated /\ purchased = Null /\ Len(grantor) = 1
             /\ doc = [EmptyDoc(1) EXCEPT
                      !.effective_date = start,
                      !.grantor = grantor,
                      !.agreement_terms = terms,
                      !.term_payment_models = <<GenTermModel(freq, prorated, escalation)>>,
                      !.full_purchase_price = 100000,
                      !.date_purchased = purchased,
                      !.estimated_closing_date = estimated]

\* the date payment models an agreement may carry
GenDateModels ==
    LET one_time == [NoDateModel EXCEPT !.date_one_time = DateLocal(2024, 4, 1),
                                        !.payment_amount = 20000,
                                        !.applicable_to_purchase = TRUE]
        recurring(freq) == [NoDateModel EXCEPT !.date_begin = DateLocal(2024, 1, 31),
                                               !.date_end = DateLocal(2025, 1, 31),
                                               !.frequency = freq,
                                               !.payment_amount = 500,
                                               !.first_payment_lag = 15]
    IN  {one_time,
         [one_time EXCEPT !.frequency = "Monthly", !.applicable_to_purchase = FALSE,
                          !.refundable = TRUE],
         recurring("Quarterly"),
         [recurring("Annually") EXCEPT !.periodic_escalation_rate = 100,
                                       !.increase_amount = 50,
                                       !.applicable_to_purchase = TRUE],
         recurring("Monthly"),
         recurring("Weekly"),
         [recurring("Semiannually") EXCEPT !.payment_amount = Null]}

\* the lists of date payment models: any of the models, followed by one-time
\* and quarterly ones
GenDateModelLists ==
    UNION { { [j \in 1..n |-> [f[j] EXCEPT !.id = j]] :
                f \in { g \in [1..n -> GenDateModels] :
                           \A j \in 2..n : g[j].frequency \in {"", "Quarterly"} } }
            : n \in 1..MaxDateModels }

\* full_purchase_price, date_purchased and estimated_closing_date
GenClosings ==
    {<<Null, Null, Null>>,
     <<Null, DateLocal(2024, 5, 10), Null>>,
     <<100000, Null, Null>>,
     <<100000, DateLocal(2024, 5, 10), Null>>,
     <<100000, Null, DateLocal(2024, 8, 1)>>,
     <<100000, DateLocal(2024, 5, 10), DateLocal(2024, 8, 1)>>}

\* an agreement with date payments only
InitGenDates ==
    \E models \in GenDateModelLists, grantor \in GrantorLists, closing \in GenClosings,
       td \in {Null, DateLocal(2024, 9, 15)} :
       doc = [EmptyDoc(1) EXCEPT
                !.effective_date = DateLocal(2024, 1, 1),
                !.grantor = grantor,
                !.date_payment_models = models,
                !.full_purchase_price = closing[1],
                !.date_purchased = closing[2],
                !.estimated_closing_date = closing[3],
                !.termination = Termination(td, 0)]

InitGen ==
    /\ InitGenTerms \/ InitGenDates
    /\ others = <<>>
    /\ pc = "constructed"
    /\ gen = NoGen
    /\ snap = NoSnap

\* calcAllTermPayments is at the term with this index of its forEach
AtTerms == pc \in {"dated", "terms"}

TermCursor == IF pc = "dated" THEN 1 ELSE gen.term

CurrentTerm == doc.agreement_terms[gen.term]

CurrentTermModel == termPaymentModel(CurrentTerm, doc.term_payment_models)

\* the forEach of calcAllTermPayments moves on to the next term
ToNextTerm(k) ==
    /\ pc' = "terms"
    /\ gen' = [kind |-> "terms", term |-> k + 1]

\* a term without payment model: its periodic_payments is not assigned
TermWithoutModel ==
    /\ AtTerms
    /\ TermCursor <= Len(doc.agreement_terms)
    /\ termPaymentModel(doc.agreement_terms[TermCursor], doc.term_payment_models) = NoModel
    /\ ToNextTerm(TermCursor)
    /\ UNCHANGED <<doc, others, snap>>

\* a term on a prorated, escalating model: calcBlendedPeriodicPaymentsForTerm
TermBlended ==
    /\ AtTerms
    /\ TermCursor <= Len(doc.agreement_terms)
    /\ LET term == doc.agreement_terms[TermCursor]
           model == termPaymentModel(term, doc.term_payment_models)
       IN  /\ model # NoModel
           /\ UsesBlended(model)
           /\ doc' = [doc EXCEPT !.agreement_terms[TermCursor].periodic_payments =
                         calcBlendedPeriodicPaymentsForTerm(doc, term)]
    /\ ToNextTerm(TermCursor)
    /\ UNCHANGED <<others, snap>>

\* calcPeriodicPaymentsForTerm returns null before its loop
StdLeaveEarly ==
    /\ AtTerms
    /\ TermCursor <= Len(doc.agreement_terms)
    /\ LET term == doc.agreement_terms[TermCursor]
           model == termPaymentModel(term, doc.term_payment_models)
       IN  /\ model # NoModel
           /\ ~UsesBlended(model)
           /\ StdLeavesEarly(doc, term, model)
           /\ doc' = [doc EXCEPT !.agreement_terms[TermCursor].periodic_payments = <<>>]
    /\ ToNextTerm(TermCursor)
    /\ UNCHANGED <<others, snap>>

\* calcPeriodicPaymentsForTerm reaches its loop
StdEnter ==
    /\ AtTerms
    /\ TermCursor <= Len(doc.agreement_terms)
    /\ LET term == doc.agreement_terms[TermCursor]
           model == termPaymentModel(term, doc.term_payment_models)
       IN  /\ model # NoModel
           /\ ~UsesBlended(model)
           /\ ~StdLeavesEarly(doc, term, model)
           /\ gen' = [kind |-> "std", term |-> TermCursor, st |-> StdLoopInit(term)]
    /\ pc' = "std_loop"
    /\ UNCHANGED <<doc, others, snap>>

\* one iteration of the loop emits a payment instant
StdIterate ==
    /\ pc = "std_loop"
    /\ LET st == StdLoopStep(doc, CurrentTerm, CurrentTermModel, gen.st)
       IN  /\ st.result = "running"
           /\ gen' = [gen EXCEPT !.st = st]
    /\ UNCHANGED <<doc, others, pc, snap>>

\* no period end for the frequency: the function returns undefined
StdAbort ==
    /\ pc = "std_loop"
    /\ StdLoopStep(doc, CurrentTerm, CurrentTermModel, gen.st).result = "undefined"
    /\ doc' = [doc EXCEPT !.agreement_terms[gen.term].periodic_payments = <<>>]
    /\ ToNextTerm(gen.term)
    /\ UNCHANGED <<others, snap>>

\* the loop is left: the payments are sorted and returned
StdReturn ==
    /\ pc = "std_loop"
    /\ StdLoopStep(doc, CurrentTerm, CurrentTermModel, gen.st).result = "returned"
    /\ doc' = [doc EXCEPT !.agreement_terms[gen.term].periodic_payments =
                  SortPayments(gen.st.payments)]
    /\ ToNextTerm(gen.term)
    /\ UNCHANGED <<others, snap>>

\* calcAllTermPayments is through; calcDatePayments resets date_payments
CalcDatePaymentsBegin ==
    /\ AtTerms
    /\ TermCursor > Len(doc.agreement_terms)
    /\ doc' = [doc EXCEPT !.date_payments = <<>>]
    /\ pc' = "date_models"
    /\ gen' = [kind |-> "dates", model |-> 1]
    /\ UNCHANGED <<others, snap>>

CurrentDateModel == doc.date_payment_models[gen.model]

\* a date payment model that lacks required fields is skipped
DateSkip ==
    /\ pc = "date_models"
    /\ gen.model <= Len(doc.date_payment_models)
    /\ DateModelSkipped(doc, CurrentDateModel)
    /\ gen' = [kind |-> "dates", model |-> gen.model + 1]
    /\ UNCHANGED <<doc, others, pc, snap>>

DateEnter ==
    /\ pc = "date_models"
    /\ gen.model <= Len(doc.date_payment_models)
    /\ ~DateModelSkipped(doc, CurrentDateModel)
    /\ gen' = [kind |-> "date", model |-> gen.model,
               st |-> DateLoopInit(doc, CurrentDateModel)]
    /\ pc' = "date_loop"
    /\ UNCHANGED <<doc, others, snap>>

\* the events the step from st to next pushes to date_payments
Pushed(st, next) == SubSeq(next.payments, Len(st.payments) + 1, Len(next.payments))

\* one iteration emits a payment instant and moves the payment date on
DateIterate ==
    /\ pc = "date_loop"
    /\ LET st == DateLoopStep(doc, CurrentDateModel, gen.st)
       IN  /\ st.result = "running"
           /\ gen' = [gen EXCEPT !.st = st]
           /\ doc' = [doc EXCEPT !.date_payments = doc.date_payments \o Pushed(gen.st, st)]
    /\ UNCHANGED <<others, pc, snap>>

\* DateAbort with the return leaving calcDatePayments instead of the callback
\* of the model
DateAbort_EndsCall ==
    /\ pc = "date_loop"
    /\ LET st == DateLoopStep(doc, CurrentDateModel, gen.st)
       IN  /\ st.result = "aborted"
           /\ doc' = [doc EXCEPT !.date_payments = doc.date_payments \o Pushed(gen.st, st)]
    /\ gen' = NoGen
    /\ pc' = "generated"
    /\ UNCHANGED <<others, snap>>

\* the frequency is none of the listed ones: the instant is emitted and the
\* callback of this model returns
DateAbort ==
    /\ pc = "date_loop"
    /\ LET st == DateLoopStep(doc, CurrentDateModel, gen.st)
       IN  /\ st.result = "aborted"
           /\ doc' = [doc EXCEPT !.date_payments = doc.date_payments \o Pushed(gen.st, st)]
    /\ gen' = [kind |-> "dates", model |-> gen.model + 1]
    /\ pc' = "date_models"
    /\ UNCHANGED <<others, snap>>

\* the loop of the model is left by its condition or by the break
DateReturn ==
    /\ pc = "date_loop"
    /\ DateLoopStep(doc, CurrentDateModel, gen.st).result = "returned"
    /\ gen' = [kind |-> "dates", model |-> gen.model + 1]
    /\ pc' = "date_models"
    /\ UNCHANGED <<doc, others, snap>>

\* calcDatePayments is through
CalcDatePaymentsEnd ==
    /\ pc = "date_models"
    /\ gen.model > Len(doc.date_payment_models)
    /\ pc' = "generated"
    /\ gen' = NoGen
    /\ UNCHANGED <<doc, others, snap>>

CalcEstimatedPurchasePrice ==
    /\ pc = "generated"
    /\ doc' = calcEstimatedPurchasePrice(doc)
    /\ pc' = "settled"
    /\ UNCHANGED <<others, gen, snap>>

\* calcEstimatedPurchasePrice called once more on the settled document, the
\* date payments not being generated again in between
CalcEstimatedPurchasePriceAgain ==
    /\ pc = "settled"
    /\ doc' = calcEstimatedPurchasePrice(doc)
    /\ pc' = "settled_again"
    /\ UNCHANGED <<others, gen, snap>>

NextGen ==
    \/ CalcAgreementTermDates
    \/ TermWithoutModel
    \/ TermBlended
    \/ StdLeaveEarly
    \/ StdEnter
    \/ StdIterate
    \/ StdAbort
    \/ StdReturn
    \/ CalcDatePaymentsBegin
    \/ DateSkip
    \/ DateEnter
    \/ DateIterate
    \/ DateAbort
    \/ DateReturn
    \/ CalcDatePaymentsEnd
    \/ CalcEstimatedPurchasePrice
    \/ CalcEstimatedPurchasePriceAgain

SpecGen == InitGen /\ [][NextGen]_vars

(***************************************************************************)
(* Properties of the generated schedule                                    *)
(***************************************************************************)
\* the events of one payment instant: those of a model with one payment index
EventsOfInstant(events, model_id, payment_index) ==
    SelectSeq(events, LAMBDA e : /\ e.payment_source # "Purchase Price Calculation"
                                 /\ e.model_id = model_id
                                 /\ e.payment_index = payment_index)

AmountSum(events) == FSum([j \in 1..Len(events) |-> events[j].payment_amount])

\* the total amount of the instant of event e of a term, before the split
TermInstantTotal(term, model, e) ==
    IF UsesBlended(model)
    THEN BlendedPayments(doc, term, model)[e.payment_index + 1].total_payment
    ELSE StdPaymentAmount(doc, term, model, e.payment_index, e.prorata_factor, Num(1))

DateModelOf(model_id) ==
    doc.date_payment_models[CHOOSE m \in 1..Len(doc.date_payment_models) :
                                doc.date_payment_models[m].id = model_id]

\* no grantor carries a payment_split, or all do and the splits sum to 100
SplitsEqualOrComplete ==
    \/ \A n \in 1..Len(doc.grantor) : doc.grantor[n].payment_split = Null
    \/ /\ \A n \in 1..Len(doc.grantor) : doc.grantor[n].payment_split # Null
       /\ FSum([n \in 1..Len(doc.grantor) |-> Num(doc.grantor[n].payment_split)]) = Num(100)

TermSharesSumToTotal(term) ==
    \A j \in 1..Len(term.periodic_payments) :
        AmountSum(EventsOfInstant(term.periodic_payments,
                                  term.periodic_payments[j].model_id,
                                  term.periodic_payments[j].payment_index))
          = TermInstantTotal(term, termPaymentModel(term, doc.term_payment_models),
                             term.periodic_payments[j])

DateSharesSumToTotal ==
    \A j \in 1..Len(doc.date_payments) :
        doc.date_payments[j].payment_source # "Purchase Price Calculation" =>
            AmountSum(EventsOfInstant(doc.date_payments, doc.date_payments[j].model_id,
                                      doc.date_payments[j].payment_index))
              = DateTotalAmount(DateModelOf(doc.date_payments[j].model_id),
                                doc.date_payments[j].payment_index + 1)

\* C2: for every payment instant of the standard, the blended and the date
\* generator, the payment_amount values of the grantors' events sum to the
\* total amount of the instant, with equal splits and with explicit splits
\* that sum to 100
C2_SharesSumToTotal ==
    SplitsEqualOrComplete =>
        /\ \A k \in 1..Len(doc.agreement_terms) : TermSharesSumToTotal(doc.agreement_terms[k])
        /\ DateSharesSumToTotal

\* C6: every iteration of the loop of calcPeriodicPaymentsForTerm strictly
\* advances the period start, every iteration of the loop of calcDatePayments
\* strictly advances the payment date, and a frequency that is not recognized
\* lets no iteration follow
C6_LoopsAdvance ==
    [][/\ (pc = "std_loop" /\ pc' = "std_loop") =>
              /\ gen'.st.payment_period_start > gen.st.payment_period_start
              /\ PeriodEndSwitch(gen.st.payment_date, CurrentTermModel.payment_frequency,
                                 CurrentTermModel.prorated_first_period,
                                 CurrentTerm.end_date) # Null
       /\ (pc = "date_loop" /\ pc' = "date_loop") =>
              /\ gen'.st.payment_date > gen.st.payment_date
              /\ CurrentDateModel.frequency \in
                     {"Annually", "Semiannually", "Quarterly", "Monthly"}]_vars

\* the settlement events among the date payments, and the other events
SettlementPart(events) ==
    SelectSeq(events, LAMBDA e : e.payment_source = "Purchase Price Calculation")

GeneratedPart(events) ==
    SelectSeq(events, LAMBDA e : e.payment_source # "Purchase Price Calculation")

\* S: the sum of payment_amount over the generated events flagged
\* applicable_to_purchase, of all terms and of the date payments
RECURSIVE ApplicableTotal(_)
ApplicableTotal(events) ==
    IF events = <<>> THEN Num(0)
    ELSE FAdd(IF Head(events).applicable_to_purchase THEN Head(events).payment_amount
              ELSE Num(0),
              ApplicableTotal(Tail(events)))

AllTermEvents == Flat([k \in 1..Len(doc.agreement_terms) |->
                          doc.agreement_terms[k].periodic_payments])

SumApplicable == ApplicableTotal(AllTermEvents \o GeneratedPart(doc.date_payments))

\* the split of grantor n: its payment_split, else 100 over the number of grantors
SplitOf(n) ==
    IF doc.grantor[n].payment_split # Null THEN Num(doc.grantor[n].payment_split)
    ELSE Frac(100, Len(doc.grantor))

\* price, a closing date and no termination
SettlementExpected ==
    /\ doc.full_purchase_price # Null /\ doc.full_purchase_price # 0
    /\ doc.date_purchased # Null \/ doc.estimated_closing_date # Null
    /\ doc.termination.termination_date = Null

\* C8: the settlement emits exactly one event per grantor, dated at
\* date_purchased (else estimated_closing_date), of amount
\* (full_purchase_price - S) x grantor share, flagged applicable_to_purchase
\* and not refundable
C8_SettlementEvents ==
    (pc = "settled" /\ SettlementExpected) =>
        /\ Len(SettlementPart(doc.date_payments)) = Len(doc.grantor)
        /\ \A n \in 1..Len(doc.grantor) :
              /\ SettlementPart(doc.date_payments)[n].payee = doc.grantor[n].name[1]
              /\ SettlementPart(doc.date_payments)[n].payment_date =
                     (IF doc.date_purchased # Null THEN doc.date_purchased
                      ELSE doc.estimated_closing_date)
              /\ SettlementPart(doc.date_payments)[n].payment_amount =
                     FDiv(FMul(FSub(Num(doc.full_purchase_price), SumApplicable), SplitOf(n)),
                          Num(100))
              /\ SettlementPart(doc.date_payments)[n].applicable_to_purchase
              /\ ~SettlementPart(doc.date_payments)[n].refundable

\* price 100000, applicable payments of 20000, one grantor without split: 80000
C8_Witness ==
    /\ pc = "settled"
    /\ SettlementExpected
    /\ doc.full_purchase_price = 100000
    /\ SumApplicable = Num(20000)
    /\ Len(doc.grantor) = 1
    /\ doc.grantor[1].payment_split = Null
    /\ Len(SettlementPart(doc.date_payments)) = 1
    /\ SettlementPart(doc.date_payments)[1].payment_amount = Num(80000)

\* C9: calcEstimatedPurchasePrice adds settlement events only when the price
\* and a closing date are set and no termination date is; in every other case
\* it leaves date_payments unchanged
C9_SettlementOnlyWhenDue ==
    [][(pc = "generated" /\ pc' = "settled") =>
           /\ GeneratedPart(doc'.date_payments) = doc.date_payments
           /\ SettlementPart(doc'.date_payments) # <<>> => SettlementExpected
           /\ ~SettlementExpected => doc'.date_payments = doc.date_payments]_vars

\* a terminated agreement with a price, a closing date and date payments is
\* through calcEstimatedPurchasePrice, and has no settlement event
C9_Witness ==
    /\ pc = "settled"
    /\ doc.full_purchase_price # Null
    /\ doc.date_purchased # Null
    /\ doc.termination.termination_date # Null
    /\ doc.grantor # <<>>
    /\ doc.date_payments # <<>>
    /\ SettlementPart(doc.date_payments) = <<>>

(***************************************************************************)
(* Amendment Overlay Merger: JupiterDoc.processAmendments                  *)
(***************************************************************************)
\* x.amendment_date || x.letter_date || x.deed_date || x.payment_directive_date
\* || x.recorded_date
AmendmentSortDate(x) ==
    IF x.amendment_date # Null THEN x.amendment_date
    ELSE IF x.letter_date # Null THEN x.letter_date
    ELSE IF x.deed_date # Null THEN x.deed_date
    ELSE IF x.payment_directive_date # Null THEN x.payment_directive_date
    ELSE x.recorded_date

\* the filter that selects the amendments of the base (lines 872-878)
IsAmendmentOf(self, x) ==
    /\ self.agreement_group # Null
    /\ x.agreement_group = self.agreement_group
    /\ AmendmentSortDate(x) # Null
    /\ x.id # self.id

\* SortBySortDate leaving the documents in the order of the collection
SortBySortDate_Unsorted(docs) == docs

\* sort((a, b) => a.sort_date.ts - b.sort_date.ts): a stable insertion of each
\* document after the documents whose sort date is not later
RECURSIVE InsertBySortDate(_, _)
InsertBySortDate(sorted, x) ==
    IF sorted = <<>> THEN <<x>>
    ELSE IF sorted[Len(sorted)].sort_date <= x.sort_date
         THEN Append(sorted, x)
         ELSE Append(InsertBySortDate(SubSeq(sorted, 1, Len(sorted) - 1), x),
                     sorted[Len(sorted)])

RECURSIVE SortFrom(_)
SortFrom(docs) ==
    IF docs = <<>> THEN <<>>
    ELSE InsertBySortDate(SortFrom(SubSeq(docs, 1, Len(docs) - 1)), docs[Len(docs)])

SortBySortDate(docs) == SortFrom(docs)

\* the place in docs of the document with this id
IndexOfId(docs, id) == CHOOSE k \in 1..Len(docs) : docs[k].id = id

\* every amendment is given its sort_date (lines 881-883)
WithSortDates(amendments) ==
    [k \in 1..Len(amendments) |->
        [amendments[k] EXCEPT !.sort_date = AmendmentSortDate(amendments[k])]]

\* amendments.filter((x) => x.amendment_date)
WithAmendmentDate(amendments) ==
    SelectSeq(amendments, LAMBDA x : x.amendment_date # Null)

\* the amendments with an amendment_date are given their ordinal, by ascending
\* sort date (lines 886-891)
WithOrdinals(amendments) ==
    With(SortBySortDate(WithAmendmentDate(amendments)), LAMBDA ranked :
        [k \in 1..Len(amendments) |->
            IF amendments[k].amendment_date # Null
            THEN [amendments[k] EXCEPT
                    !.amendment_ordinal = IndexOfId(ranked, amendments[k].id)]
            ELSE amendments[k]])

\* date_payment_models taking the models of the amendment in place of its own
PushDateModels_Replacing(models, amendment) ==
    IF amendment.date_payment_models # <<>> THEN amendment.date_payment_models
    ELSE models

\* amendment.date_payment_models?.forEach((model) =>
\*     this.date_payment_models.push(model))
PushDateModels(models, amendment) == models \o amendment.date_payment_models

\* the body of the loop over the amendments (lines 896-978)
ApplyAmendment(self, amendment) ==
    [self EXCEPT
        !.effective_date =
            IF amendment.effective_date # Null THEN amendment.effective_date ELSE @,
        !.outside_date =
            IF amendment.outside_date # Null THEN amendment.outside_date ELSE @,
        !.property_description =
            IF Len(amendment.property_description) > 0
            THEN amendment.property_description ELSE @,
        !.jupiter_entity =
            IF amendment.jupiter_entity # Null THEN amendment.jupiter_entity ELSE @,
        !.grantee = IF amendment.grantee # Null THEN amendment.grantee ELSE @,
        !.grantor = IF Len(amendment.grantor) > 0 THEN amendment.grantor ELSE @,
        !.full_purchase_price =
            IF OrZero(amendment.full_purchase_price) # 0
            THEN amendment.full_purchase_price ELSE @,
        !.estimated_closing_date =
            IF amendment.estimated_closing_date # Null
            THEN amendment.estimated_closing_date ELSE @,
        !.date_purchased =
            IF amendment.date_purchased # Null THEN amendment.date_purchased ELSE @,
        !.date_sold = IF amendment.date_sold # Null THEN amendment.date_sold ELSE @,
        !.agreement_terms =
            IF Len(amendment.agreement_terms) > 0 THEN amendment.agreement_terms ELSE @,
        !.terms_owner = IF Len(amendment.agreement_terms) > 0 THEN amendment.id ELSE @,
        !.term_payment_models =
            IF Len(amendment.term_payment_models) > 0
            THEN amendment.term_payment_models ELSE @,
        !.termination =
            IF amendment.termination.keys > 0 THEN amendment.termination ELSE @,
        !.date_payment_models = PushDateModels(@, amendment),
        !.review_status =
            IF amendment.review_status # Null THEN amendment.review_status ELSE @,
        !.review_status_doc_id =
            IF amendment.review_status # Null THEN amendment.id ELSE @]

\* the loop over the sorted amendments (line 895)
RECURSIVE FoldAmendments(_, _)
FoldAmendments(self, amendments) ==
    IF amendments = <<>> THEN self
    ELSE FoldAmendments(ApplyAmendment(self, Head(amendments)), Tail(amendments))

\* the ids of the documents
IdsOf(docs) == [k \in 1..Len(docs) |-> docs[k].id]

\* the collection with the amendments as the call leaves them
Replaced(allDocs, amendments) ==
    [j \in 1..Len(allDocs) |->
        IF \E k \in 1..Len(amendments) : amendments[k].id = allDocs[j].id
        THEN amendments[IndexOfId(amendments, allDocs[j].id)]
        ELSE allDocs[j]]

\* the re-calculation that lines 985-989 hold as comments: the resolver, the
\* generators and the settlement run on the document
Rerun(self) ==
    calcEstimatedPurchasePrice(calcDatePayments(calcAllTermPayments(
        [self EXCEPT !.agreement_terms =
            calcAgreementTermDates(self.agreement_terms, self.effective_date,
                                   self.operational_details, self.termination)])))

\* Overlay running the resolver and the generators after the fold
Overlay_Rerun(self, allDocs, amendments) ==
    With(SortBySortDate(amendments), LAMBDA sorted :
        [self |-> Rerun([FoldAmendments(self, sorted) EXCEPT
                            !.amendments = [set |-> TRUE,
                                            ids |-> IdsOf(WithAmendmentDate(sorted))]]),
         allDocs |-> Replaced(allDocs, amendments)])

\* the amendments are sorted and folded into the base, and this.amendments is
\* set (lines 895-992)
Overlay(self, allDocs, amendments) ==
    With(SortBySortDate(amendments), LAMBDA sorted :
        [self |-> [FoldAmendments(self, sorted) EXCEPT
                      !.amendments = [set |-> TRUE,
                                      ids |-> IdsOf(WithAmendmentDate(sorted))]],
         allDocs |-> Replaced(allDocs, amendments)])

\* processAmendments without the test of the effective date
processAmendments_AnyDocument(self, allDocs) ==
    With(SelectSeq(allDocs, LAMBDA x : IsAmendmentOf(self, x)), LAMBDA amendments :
        IF amendments = <<>> THEN [self |-> self, allDocs |-> allDocs]
        ELSE Overlay(self, allDocs, WithOrdinals(WithSortDates(amendments))))

\* JupiterDoc.processAmendments(allDocs): the base and the collection as the
\* call leaves them
processAmendments(self, allDocs) ==
    IF self.effective_date = Null THEN [self |-> self, allDocs |-> allDocs]
    ELSE With(SelectSeq(allDocs, LAMBDA x : IsAmendmentOf(self, x)), LAMBDA amendments :
            IF amendments = <<>> THEN [self |-> self, allDocs |-> allDocs]
            ELSE Overlay(self, allDocs, WithOrdinals(WithSortDates(amendments))))

(***************************************************************************)
(* Associated documents: JupiterDoc.findOtherDocs                          *)
(***************************************************************************)
\* allDocs.filter((x) => x.agreement_group === this.agreement_group && x[date]):
\* the documents of the group of self that carry the date of this name
DocsOfGroup(self, allDocs, date) ==
    [set |-> TRUE,
     ids |-> IdsOf(SelectSeq(allDocs, LAMBDA x : /\ x.agreement_group = self.agreement_group
                                                 /\ x[date] # Null))]

\* this.total_agreement_acres: acc + (desc.agreement_acres || 0) over the
\* property descriptions (lines 1012-1014)
RECURSIVE AgreementAcres(_)
AgreementAcres(property_description) ==
    IF property_description = <<>> THEN 0
    ELSE AgreementAcres(Tail(property_description))
         + (IF Head(property_description).agreement_acres \in {Null, Undefined} THEN 0
            ELSE Head(property_description).agreement_acres)

\* JupiterDoc.findOtherDocs(allDocs)
findOtherDocs(self, allDocs) ==
    IF self.effective_date = Null THEN self
    ELSE [self EXCEPT
            !.payment_directives = DocsOfGroup(self, allDocs, "payment_directive_date"),
            !.recorded_docs = DocsOfGroup(self, allDocs, "recorded_date"),
            !.letters = DocsOfGroup(self, allDocs, "letter_date"),
            !.deeds = DocsOfGroup(self, allDocs, "deed_date"),
            !.total_agreement_acres = AgreementAcres(self.property_description)]

(***************************************************************************)
(* A base agreement and its amendments                                     *)
(***************************************************************************)
\* the largest number of other documents in the collection, and of
\* processAmendments calls on the base
MaxAmendments == 2
MaxAmendCalls == 2

\* the dates a document of the collection carries: amendment_date,
\* letter_date, recorded_date
AmendmentDatings ==
    {<<DateLocal(2024, 2, 1), Null, Null>>,
     <<DateLocal(2024, 3, 1), Null, Null>>,
     <<Null, DateLocal(2024, 2, 15), Null>>,
     <<Null, Null, DateLocal(2024, 3, 1)>>,
     <<Null, Null, Null>>}

\* a document of the agreement group `group` that carries no facts but its dates
DatedDoc(id, group, dating) ==
    [EmptyDoc(id) EXCEPT !.agreement_group = group,
                         !.amendment_date = dating[1],
                         !.letter_date = dating[2],
                         !.recorded_date = dating[3]]

\* the facts an amendment may carry: the parties, the purchase, the terms, a
\* date payment model, or values that count as not supplied
WithParties(x) ==
    [x EXCEPT !.grantor = EqualGrantors(2),
              !.grantee = 100 + x.id,
              !.jupiter_entity = 200 + x.id,
              !.property_description = <<NewDescription(x.id, FALSE)>>,
              !.total_controlled_acres = ControlledAcres(<<NewDescription(x.id, FALSE)>>),
              !.review_status = 300 + x.id,
              !.outside_date = DateLocal(2025, 1, 1) + x.id]

WithPurchase(x) ==
    [x EXCEPT !.full_purchase_price = 50000 + 1000 * x.id,
              !.estimated_closing_date = DateLocal(2024, 9, 1) + x.id,
              !.date_purchased = DateLocal(2024, 6, 1) + x.id,
              !.date_sold = DateLocal(2024, 12, 1) + x.id]

WithTerms(x) ==
    [x EXCEPT !.effective_date = DateLocal(2024, 1, 1) + x.id,
              !.agreement_terms = <<NewTerm(1, "Option", FALSE, 1),
                                    NewTerm(2, "Option", TRUE, 1)>>,
              !.term_payment_models = <<GenTermModel("Quarterly", FALSE, <<Null, "">>)>>,
              !.termination = Termination(DateLocal(2024, 10, 1) + x.id, 0)]

WithDateModel(x) ==
    [x EXCEPT !.date_payment_models =
        <<[NoDateModel EXCEPT !.id = 100 + x.id,
                              !.date_one_time = DateLocal(2024, 3, 15),
                              !.payment_amount = 5000,
                              !.applicable_to_purchase = TRUE]>>]

\* term payment models none of which is of the type of an "Option" term
WithModels(x) ==
    [x EXCEPT !.term_payment_models =
        <<[GenTermModel("Annually", FALSE, <<Null, "">>) EXCEPT
              !.id = 2, !.model_type = "Operations"]>>]

\* a price of 0, and a Termination fact that carries no termination date
WithEmptyValues(x) ==
    [x EXCEPT !.full_purchase_price = 0,
              !.termination = Termination(Null, 1)]

\* the documents the collection may hold beside the base, the base being of
\* agreement group 1
OtherDocs(id) ==
    {WithPurchase(WithParties(DatedDoc(id, 1, dating))) :
         dating \in AmendmentDatings \ {<<Null, Null, Null>>}}
    \cup {WithDateModel(WithTerms(DatedDoc(id, 1, <<Null, DateLocal(2024, 2, 15), Null>>))),
          WithModels(WithDateModel(DatedDoc(id, 1, <<DateLocal(2024, 2, 1), Null, Null>>))),
          WithTerms(DatedDoc(id, 1, <<DateLocal(2024, 3, 1), Null, Null>>)),
          WithEmptyValues(DatedDoc(id, 1, <<DateLocal(2024, 3, 1), Null, Null>>)),
          WithPurchase(WithParties(DatedDoc(id, Null, <<DateLocal(2024, 2, 1), Null, Null>>))),
          WithDateModel(WithTerms(WithPurchase(WithParties(
              DatedDoc(id, 1, <<Null, Null, Null>>)))))}

\* the collections of n other documents, the document at place j having id
\* 10 + j
RECURSIVE OtherDocListsOf(_)
OtherDocListsOf(n) ==
    IF n = 0 THEN {<<>>}
    ELSE {Append(s, x) : s \in OtherDocListsOf(n - 1), x \in OtherDocs(10 + n)}

OtherDocLists == UNION {OtherDocListsOf(n) : n \in 0..MaxAmendments}

\* the base: an original agreement with one term, one term payment model, one
\* date payment model and one grantor
BaseDoc(effective_date, agreement_group) ==
    [EmptyDoc(1) EXCEPT
        !.effective_date = effective_date,
        !.agreement_group = agreement_group,
        !.grantor = EqualGrantors(1),
        !.agreement_terms = <<NewTerm(1, "Option", FALSE, 1)>>,
        !.term_payment_models = <<GenTermModel("Annually", FALSE, <<Null, "">>)>>,
        !.date_payment_models =
            <<[NoDateModel EXCEPT !.id = 1,
                                  !.date_one_time = DateLocal(2024, 4, 1),
                                  !.payment_amount = 20000,
                                  !.applicable_to_purchase = TRUE]>>,
        !.full_purchase_price = 100000,
        !.estimated_closing_date = DateLocal(2024, 8, 1)]

InitAmend ==
    /\ \E base \in {<<DateLocal(2024, 1, 1), 1>>, <<Null, 1>>,
                    <<DateLocal(2024, 1, 1), Null>>} :
          doc = BaseDoc(base[1], base[2])
    /\ others \in OtherDocLists
    /\ pc = "constructed"
    /\ gen = NoGen
    /\ snap = NoSnap

\* base.processAmendments(allDocs), allDocs holding the base and the other
\* documents
ProcessAmendments ==
    /\ pc \in {"constructed", "amended", "settled"}
    /\ snap.amend_calls < MaxAmendCalls
    /\ LET r == processAmendments(doc, <<doc>> \o others)
       IN  /\ doc' = r.self
           /\ others' = Tail(r.allDocs)
    /\ pc' = "amended"
    /\ snap' = [snap EXCEPT !.amend_calls = @ + 1]
    /\ UNCHANGED gen

\* base.findOtherDocs(allDocs)
FindOtherDocs ==
    /\ pc \in {"constructed", "amended"}
    /\ ~snap.find_called
    /\ doc' = findOtherDocs(doc, <<doc>> \o others)
    /\ snap' = [snap EXCEPT !.find_called = TRUE]
    /\ UNCHANGED <<others, pc, gen>>

\* this.calcAllTermPayments()
CalcAllTermPayments ==
    /\ pc = "dated"
    /\ doc' = calcAllTermPayments(doc)
    /\ others' = SyncTerms(others, doc')
    /\ pc' = "terms_paid"
    /\ UNCHANGED <<gen, snap>>

\* this.calcDatePayments()
CalcDatePayments ==
    /\ pc = "terms_paid"
    /\ doc' = calcDatePayments(doc)
    /\ pc' = "generated"
    /\ UNCHANGED <<others, gen, snap>>

NextAmend ==
    \/ ProcessAmendments
    \/ FindOtherDocs
    \/ CalcAgreementTermDates
    \/ CalcAllTermPayments
    \/ CalcDatePayments
    \/ CalcEstimatedPurchasePrice

SpecAmend == InitAmend /\ [][NextAmend]_vars

(***************************************************************************)
(* Properties of the overlay                                               *)
(***************************************************************************)
\* a processAmendments call is the step
AmendStep == pc' = "amended" /\ snap'.amend_calls = snap.amend_calls + 1

\* the places in models of the date payment model m
Occurrences(models, m) == {i \in 1..Len(models) : models[i] = m}

\* the documents processAmendments folds into self
AmendmentsOf(self, docs) ==
    {j \in 1..Len(docs) : self.effective_date # Null /\ IsAmendmentOf(self, docs[j])}

\* C1: a second processAmendments call on the base, the collection being as
\* the first call left it, leaves effective_date, agreement_terms,
\* date_payment_models and the payment events generated from them as they were
\* after the first call, each date payment model of an amendment being once in
\* the date_payment_models of the base
C1_SecondCallIdempotent ==
    [][(pc = "amended" /\ AmendStep) =>
           /\ doc'.effective_date = doc.effective_date
           /\ doc'.agreement_terms = doc.agreement_terms
           /\ doc'.date_payment_models = doc.date_payment_models
           /\ Rerun(doc').agreement_terms = Rerun(doc).agreement_terms
           /\ Rerun(doc').date_payments = Rerun(doc).date_payments
           /\ \A j \in AmendmentsOf(doc, others) :
                 \A i \in 1..Len(others[j].date_payment_models) :
                    Cardinality(Occurrences(doc'.date_payment_models,
                                            others[j].date_payment_models[i])) = 1]_vars

RECURSIVE FirstSet(_)
FirstSet(dates) ==
    IF dates = <<>> THEN Null
    ELSE IF Head(dates) # Null THEN Head(dates)
    ELSE FirstSet(Tail(dates))

OperativeSortDate(x) ==
    FirstSet(<<x.amendment_date, x.letter_date, x.deed_date, x.payment_directive_date,
               x.recorded_date>>)

\* the documents of the agreement group of the base that carry a date
Candidates(self, docs) ==
    {j \in 1..Len(docs) : /\ self.agreement_group # Null
                          /\ docs[j].agreement_group = self.agreement_group
                          /\ OperativeSortDate(docs[j]) # Null
                          /\ docs[j].id # self.id}

\* those of the documents S whose sort date is the latest
Latest(S, docs) ==
    {j \in S : \A k \in S : OperativeSortDate(docs[k]) <= OperativeSortDate(docs[j])}

\* the field Value is, after the call, what the latest of the candidates that
\* supply it has, and what the base had when no candidate supplies it
LatestWins(before, after, docs, Supplies(_), Value(_)) ==
    IF \E j \in Candidates(before, docs) : Supplies(docs[j])
    THEN \E j \in Latest({k \in Candidates(before, docs) : Supplies(docs[k])}, docs) :
            Value(after) = Value(docs[j])
    ELSE Value(after) = Value(before)

AscendingOrders(S, docs) ==
    {p \in [1..Cardinality(S) -> S] :
        /\ \A i, j \in 1..Cardinality(S) : (i # j) => (p[i] # p[j])
        /\ \A i, j \in 1..Cardinality(S) :
              (i < j) => (OperativeSortDate(docs[p[i]]) <= OperativeSortDate(docs[p[j]]))}

\* the date payment models of the documents p[from], p[from + 1], ... of docs
RECURSIVE ModelsInOrder(_, _, _)
ModelsInOrder(p, from, docs) ==
    IF from > Len(p) THEN <<>>
    ELSE docs[p[from]].date_payment_models \o ModelsInOrder(p, from + 1, docs)

\* the amendments a call on self selects: the candidates, when self has an
\* effective date
Selected(self, docs) ==
    IF self.effective_date = Null THEN {} ELSE Candidates(self, docs)

\* C11: after one processAmendments call the date_payment_models of the base
\* are its own models, as they were, followed by the date payment models of
\* every selected amendment, the amendments in ascending order of their sort
\* dates; its length is the length it had plus the number of date payment
\* models of the selected amendments
C11_DateModelsAppended ==
    [][(AmendStep /\ snap.amend_calls = 0) =>
           /\ \E p \in AscendingOrders(Selected(doc, others), others) :
                 doc'.date_payment_models =
                     doc.date_payment_models \o ModelsInOrder(p, 1, others)
           /\ \E p \in AscendingOrders(Selected(doc, others), others) :
                 Len(doc'.date_payment_models) =
                     Len(doc.date_payment_models) + Len(ModelsInOrder(p, 1, others))]_vars

\* one call is made; the base has its model, then the model of the second
\* document of the collection, then that of the first, whose sort date is later
C11_Witness ==
    /\ pc = "amended"
    /\ snap.amend_calls = 1
    /\ Len(others) = 2
    /\ others[1].sort_date > others[2].sort_date
    /\ others[2].sort_date # Null
    /\ Len(doc.date_payment_models) = 3
    /\ doc.date_payment_models[1].id = 1
    /\ doc.date_payment_models[2] = others[2].date_payment_models[1]
    /\ doc.date_payment_models[3] = others[1].date_payment_models[1]

\* everything of the base but the record of the calls made on it is unchanged
BaseUntouched == doc' = doc /\ others' = others

\* C12: on a base without effective_date, processAmendments and findOtherDocs
\* change nothing: no field of the base is overwritten, no date payment model
\* is appended, neither the amendments nor the lists of associated documents
\* are set, and no other document is touched
C12_NoEffectiveDateNoChange ==
    [][(doc.effective_date = Null /\ (ProcessAmendments \/ FindOtherDocs)) =>
           /\ BaseUntouched
           /\ ~doc'.amendments.set
           /\ ~doc'.letters.set /\ ~doc'.recorded_docs.set
           /\ ~doc'.payment_directives.set /\ ~doc'.deeds.set]_vars

\* both calls were made on a base without effective date whose group has a
\* dated document that carries values and a date payment model
C12_Witness ==
    /\ doc.effective_date = Null
    /\ pc = "amended"
    /\ snap.find_called
    /\ \E j \in Candidates(doc, others) :
          /\ others[j].date_payment_models # <<>>
          /\ others[j].effective_date # Null
          /\ others[j].letter_date # Null
    /\ doc.date_payment_models = BaseDoc(Null, 1).date_payment_models
    /\ ~doc.amendments.set

(***************************************************************************)
(* C13: terms that cannot be paid carry no events                          *)
(***************************************************************************)
\* the term has no matching payment model, no start date, no end date, is
\* cancelled by operations, or its agreement has no grantor
CannotBePaid(self, term) ==
    \/ termPaymentModel(term, self.term_payment_models) = NoModel
    \/ term.start_date = Null
    \/ term.end_date = Null
    \/ term.cancelled_by_ops
    \/ Len(self.grantor) = 0

\* C13: after calcAllTermPayments, every term without a matching payment
\* model, without a start or an end date, cancelled by operations, or of an
\* agreement without grantors carries no payment events, also when the call
\* follows an overlay that replaced the term payment models or the terms
C13_NoEventsOnUnpayableTerms ==
    pc = "terms_paid" =>
        \A k \in 1..Len(doc.agreement_terms) :
            CannotBePaid(doc, doc.agreement_terms[k]) =>
                doc.agreement_terms[k].periodic_payments = <<>>

(***************************************************************************)
(* C14: a date payment model with an unlisted frequency                    *)
(***************************************************************************)
\* the frequency is none of those the loop advances by (lines 796-808)
UnlistedFrequency(model) ==
    model.frequency \notin {"Annually", "Semiannually", "Quarterly", "Monthly"}

\* the events of the model with this id, and the events of the other models
EventsOfModel(events, model_id) ==
    SelectSeq(events, LAMBDA e : e.model_id = model_id)

EventsOfOtherModels(events, model_id) ==
    SelectSeq(events, LAMBDA e : e.model_id # model_id)

\* the agreement without its j-th date payment model
WithoutDateModel(self, j) ==
    [self EXCEPT !.date_payment_models =
        SubSeq(@, 1, j - 1) \o SubSeq(@, j + 1, Len(@))]

\* the one payment instant a model emits before its frequency is looked at
FirstInstant(self, model) ==
    With(DateLoopInit(self, model), LAMBDA st :
        IF DateModelSkipped(self, model) THEN <<>>
        ELSE IF ~(st.payment_date <= st.payment_date_end) THEN <<>>
        ELSE IF self.date_purchased # Null /\ st.payment_date > self.date_purchased
        THEN <<>>
        ELSE DateEvents(self, model, 1, st.payment_date))

\* C14: when calcDatePayments is through, a date payment model whose
\* frequency is unrecognized or missing has kept the events of the instant it
\* emitted, and the other models of the agreement, before and after it, have
\* the events they have when that model is absent
C14_UnlistedFrequencyStopsOneModel ==
    pc = "generated" =>
        \A j \in 1..Len(doc.date_payment_models) :
            UnlistedFrequency(doc.date_payment_models[j]) =>
                /\ EventsOfModel(doc.date_payments, doc.date_payment_models[j].id)
                       = FirstInstant(doc, doc.date_payment_models[j])
                /\ EventsOfOtherModels(doc.date_payments, doc.date_payment_models[j].id)
                       = calcDatePayments(WithoutDateModel(doc, j)).date_payments

\* a model of weekly frequency has emitted its first instant and the
\* quarterly model after it has emitted several
C14_Witness ==
    /\ pc = "generated"
    /\ Len(doc.date_payment_models) = 2
    /\ doc.date_payment_models[1].frequency = "Weekly"
    /\ doc.date_payment_models[2].frequency = "Quarterly"
    /\ Len(doc.grantor) = 2
    /\ Len(EventsOfModel(doc.date_payments, 1)) = 2
    /\ Len(EventsOfModel(doc.date_payments, 2)) > 2

(***************************************************************************)
(* C15: the monthly schedule of a term of whole years                      *)
(***************************************************************************)
\* the agreement and the term of the case: a term of whole years paid from its
\* start by an anniversary-aligned Monthly model of a flat amount, without
\* escalation or increase, to one grantor of default split, and no closing
FlatMonthlyCase(self, term, model) ==
    /\ model # NoModel
    /\ model.payment_frequency = "Monthly"
    /\ ~model.prorated_first_period
    /\ OrZero(model.periodic_escalation_rate) = 0
    /\ OrZero(model.increase_amount) = 0
    /\ model.flat_payment_amount # Null
    /\ term.first_payment_start = "Start with Term"
    /\ term.start_date # Null /\ term.end_date # Null /\ ~term.cancelled_by_ops
    /\ OrZero(term.cumulative_increase_amount) = 0
    /\ term.term_length_years > 0 /\ term.term_length_years % 2 = 0
    /\ Len(self.grantor) = 1 /\ self.grantor[1].payment_split = Null
    /\ self.date_purchased = Null
    /\ self.termination.termination_date = Null

\* 12 events a year, the i-th on the i-th monthly anniversary of the start of
\* the term, each of pro rata factor 1 and of the flat amount
MonthlyOnAnniversaries(term, model) ==
    /\ Len(term.periodic_payments) = 6 * term.term_length_years
    /\ \A i \in 1..Len(term.periodic_payments) :
          /\ term.periodic_payments[i].payment_date = PlusMonths(term.start_date, i - 1)
          /\ term.periodic_payments[i].prorata_factor = Num(1)
          /\ term.periodic_payments[i].payment_amount = Num(model.flat_payment_amount)
    /\ \A i \in 1..(Len(term.periodic_payments) - 1) :
          term.periodic_payments[i].payment_date
              < term.periodic_payments[i + 1].payment_date

\* C15: a term of N whole years starting on any day of the month, paid monthly
\* on anniversaries at a flat amount, carries exactly 12 N events, one on each
\* monthly anniversary of its start, each of pro rata factor 1 and of the flat
\* amount, in ascending order of date
C15_MonthlyAnniversaries ==
    pc = "generated" =>
        \A k \in 1..Len(doc.agreement_terms) :
            With(doc.agreement_terms[k], LAMBDA term :
                With(termPaymentModel(term, doc.term_payment_models), LAMBDA model :
                    FlatMonthlyCase(doc, term, model)
                        => MonthlyOnAnniversaries(term, model)))

(***************************************************************************)
(* Base payments: the constructor's controlled acres, the cumulative       *)
(* values of calcAgreementTermDates and periodicBasePayment                *)
(***************************************************************************)
\* the largest number of property descriptions of an agreement
MaxDescriptions == 2

\* the property descriptions an agreement may carry: acres given, null or
\* missing, counted or excluded
Descriptions ==
    {NewDescription(acres, exclude) : acres \in {50, 30, Null, Undefined},
                                      exclude \in BOOLEAN}

RECURSIVE DescriptionListsOf(_)
DescriptionListsOf(n) ==
    IF n = 0 THEN {<<>>}
    ELSE {Append(s, x) : s \in DescriptionListsOf(n - 1), x \in Descriptions}

\* the rates a term payment model may carry
BaseModels ==
    {[GenTermModel("Annually", FALSE, <<Null, "">>) EXCEPT
         !.flat_payment_amount = r[1], !.minimum_payment = r[2],
         !.payment_per_acre = r[3], !.payment_per_mw = r[4], !.payment_per_mva = r[5]] :
       r \in {<<Null, Null, 10, Null, Null>>,
              <<1200, Null, Null, Null, Null>>,
              <<Null, 400, 10, Null, Null>>,
              <<Null, Null, Null, 100, 7>>,
              <<450, Null, 10, 80, Null>>,
              <<Null, Null, Null, Null, Null>>}}

\* operational details: none, or the capacity and the inverters of the project
BaseOpDetails ==
    {NoOpDetails,
     [NoOpDetails EXCEPT !.mw = 5],
     [NoOpDetails EXCEPT !.mw = 5, !.inverter_count = 10, !.inverter_rating_mvas = 8]}

\* a one-year term with its payment model name (absent: ""), its increase
\* amount and its escalation rate
BaseTerm(ordinal, payment_model, step) ==
    [NewTerm(ordinal, "Option", FALSE, 2) EXCEPT
        !.payment_model = payment_model,
        !.increase_amount = step[1],
        !.escalation_rate = step[2]]

\* the terms in the order of the document, which need not be that of their
\* ordinals
RECURSIVE BaseTermListsOf(_)
BaseTermListsOf(n) ==
    IF n = 0 THEN {<<>>}
    ELSE {Append(s, BaseTerm(ordinal, payment_model, step)) :
            s \in BaseTermListsOf(n - 1), ordinal \in 1..MaxTerms,
            payment_model \in {"Option", ""},
            step \in {<<Null, Null>>, <<100, 10>>, <<250, Null>>}}

\* an agreement with one term and any property descriptions, rates and
\* operational details
InitBaseAcres ==
    \E n \in 0..MaxDescriptions, model \in BaseModels, details \in BaseOpDetails :
      \E property_description \in DescriptionListsOf(n) :
        doc = [EmptyDoc(1) EXCEPT
                 !.effective_date = DateLocal(2024, 1, 1),
                 !.grantor = EqualGrantors(1),
                 !.property_description = property_description,
                 !.total_controlled_acres = ControlledAcres(property_description),
                 !.operational_details = details,
                 !.agreement_terms = <<BaseTerm(1, "Option", <<100, 10>>)>>,
                 !.term_payment_models = <<model>>]

\* an agreement of 50 acres paid per acre, with any terms
InitBaseTerms ==
    \E n \in 1..MaxTerms :
      \E terms \in BaseTermListsOf(n) :
        doc = [EmptyDoc(1) EXCEPT
                 !.effective_date = DateLocal(2024, 1, 1),
                 !.grantor = EqualGrantors(1),
                 !.property_description = <<NewDescription(50, FALSE)>>,
                 !.total_controlled_acres = ControlledAcres(<<NewDescription(50, FALSE)>>),
                 !.agreement_terms = terms,
                 !.term_payment_models =
                     <<[GenTermModel("Annually", FALSE, <<Null, "">>) EXCEPT
                          !.flat_payment_amount = Null, !.payment_per_acre = 10]>>]

InitBase ==
    /\ InitBaseAcres \/ InitBaseTerms
    /\ others = <<>>
    /\ pc = "constructed"
    /\ gen = NoGen
    /\ snap = NoSnap

\* this.periodicBasePayment(model, this.operational_details,
\*     term.cumulative_escalation_rate, term.cumulative_increase_amount,
\*     this.total_controlled_acres) for a term of the agreement, as the
\* generators call it
PeriodicBasePayment ==
    /\ pc = "dated"
    /\ \E k \in 1..Len(doc.agreement_terms) :
          gen' = [kind |-> "base", term |-> k,
                  base |-> periodicBasePayment(
                      termPaymentModel(doc.agreement_terms[k], doc.term_payment_models),
                      doc.operational_details,
                      doc.agreement_terms[k].cumulative_escalation_rate,
                      doc.agreement_terms[k].cumulative_increase_amount,
                      doc.total_controlled_acres)]
    /\ pc' = "based"
    /\ UNCHANGED <<doc, others, snap>>

NextBase ==
    \/ CalcAgreementTermDates
    \/ PeriodicBasePayment

SpecBase == InitBase /\ [][NextBase]_vars

\* the largest of the numbers
Largest(S) == CHOOSE x \in S : \A y \in S : x >= y

\* the five ways of paying, an absent rate or quantity counting as 0
PaymentModes(model, op_details, acres) ==
    {OrZero(model.minimum_payment),
     OrZero(model.payment_per_mw) * OrZero(op_details.mw),
     OrZero(op_details.inverter_count) * OrZero(op_details.inverter_rating_mvas)
         * OrZero(model.payment_per_mva),
     OrZero(model.flat_payment_amount),
     OrZero(model.payment_per_acre) * OrZero(acres)}

\* the model pays per acre only, at 10 an acre
PerAcreOnly(model) ==
    /\ model.payment_per_acre = 10
    /\ model.minimum_payment = Null /\ model.flat_payment_amount = Null
    /\ model.payment_per_mw = Null /\ model.payment_per_mva = Null

\* C16: periodicBasePayment returns the largest of the minimum payment, the
\* payment per MW, the payment per MVA of the inverters, the flat amount and
\* the payment per acre, plus the cumulative increase amount, times the
\* cumulative escalation rate, absent rates and quantities counting as 0; at
\* 10 an acre only and 50 controlled acres the base before escalation is 500
C16_BasePaymentFormula ==
    pc = "based" =>
        With(doc.agreement_terms[gen.term], LAMBDA term :
          With(termPaymentModel(term, doc.term_payment_models), LAMBDA model :
            /\ gen.base =
                  FMul(FAdd(Num(Largest(PaymentModes(model, doc.operational_details,
                                                     doc.total_controlled_acres))),
                            Num(term.cumulative_increase_amount)),
                       term.cumulative_escalation_rate)
            /\ (PerAcreOnly(model) /\ doc.total_controlled_acres = 50)
                  => gen.base = FMul(FAdd(Num(500), Num(term.cumulative_increase_amount)),
                                     term.cumulative_escalation_rate)))

\* an agreement of 50 controlled acres paid at 10 an acre only, with the
\* capacity and the inverters of the project known: the base of its term of
\* increase 100 and escalation 10 % is (500 + 100) * 1.1
C16_Witness ==
    /\ pc = "based"
    /\ PerAcreOnly(doc.term_payment_models[1])
    /\ doc.total_controlled_acres = 50
    /\ doc.operational_details.inverter_count = 10
    /\ doc.agreement_terms[gen.term].cumulative_increase_amount = 100
    /\ doc.agreement_terms[gen.term].cumulative_escalation_rate = Frac(11, 10)
    /\ gen.base = Num(660)

(***************************************************************************)
(* C17: cumulative increase amount and cumulative escalation rate          *)
(***************************************************************************)
\* the places of the terms that count for `term`: same payment_model, ordinal
\* at most its own
Contributors(terms, term) ==
    {i \in 1..Len(terms) : /\ terms[i].payment_model = term.payment_model
                           /\ terms[i].term_ordinal <= term.term_ordinal}

RECURSIVE IncreaseOver(_, _)
IncreaseOver(I, terms) ==
    IF I = {} THEN 0
    ELSE With(CHOOSE i \in I : TRUE, LAMBDA i :
            OrZero(terms[i].increase_amount) + IncreaseOver(I \ {i}, terms))

RECURSIVE EscalationOver(_, _)
EscalationOver(I, terms) ==
    IF I = {} THEN Num(1)
    ELSE With(CHOOSE i \in I : TRUE, LAMBDA i :
            FMul(Frac(100 + OrZero(terms[i].escalation_rate), 100),
                 EscalationOver(I \ {i}, terms)))

\* C17: after calcAgreementTermDates, the cumulative increase amount of every
\* term is the sum of increase_amount, and its cumulative escalation rate the
\* product of 1 + escalation_rate / 100, over exactly the terms of its
\* payment_model whose ordinal is at most its own, absent values counting as 0
C17_CumulativeOverCohort ==
    pc \in {"dated", "based"} =>
        \A k \in 1..Len(doc.agreement_terms) :
            With(doc.agreement_terms[k], LAMBDA term :
                /\ term.cumulative_increase_amount
                      = IncreaseOver(Contributors(doc.agreement_terms, term),
                                     doc.agreement_terms)
                /\ term.cumulative_escalation_rate
                      = EscalationOver(Contributors(doc.agreement_terms, term),
                                       doc.agreement_terms))

\* two terms of one payment model: the first does not take the increase of the
\* second, the second takes both increases and the escalation of the first
C17_Witness ==
    /\ pc = "dated"
    /\ Len(doc.agreement_terms) = 2
    /\ doc.agreement_terms[1].term_ordinal < doc.agreement_terms[2].term_ordinal
    /\ doc.agreement_terms[1].payment_model = doc.agreement_terms[2].payment_model
    /\ doc.agreement_terms[1].increase_amount = 100
    /\ doc.agreement_terms[2].increase_amount = 250
    /\ doc.agreement_terms[1].cumulative_increase_amount = 100
    /\ doc.agreement_terms[2].cumulative_increase_amount = 350
    /\ doc.agreement_terms[2].cumulative_escalation_rate = Frac(11, 10)

(***************************************************************************)
(* C18: the cross-document steps and the other documents                   *)
(***************************************************************************)
\* C18: processAmendments and findOtherDocs on the base only read the other
\* documents of the collection: each of them has the fields and values it had
\* before the call, and the collection has the order it had
C18_OtherDocumentsOnlyRead ==
    [][(ProcessAmendments \/ FindOtherDocs) => others' = others]_vars

(***************************************************************************)
(* C19: the dates of the events of a date payment model                    *)
(***************************************************************************)
\* the dates that are set
DatesSet(dates) == {dates[i] : i \in 1..Len(dates)} \ {Null}

\* C19: every event of calcDatePayments is dated on or after the date_one_time
\* of its model (else its date_begin), on or before each of the termination
\* date, date_one_time and date_end that is set, and on or before
\* date_purchased when it is set; a one-time model has at most one payment
\* instant
C19_DateEventsWithinBounds ==
    \A j \in 1..Len(GeneratedPart(doc.date_payments)) :
        With(GeneratedPart(doc.date_payments)[j], LAMBDA e :
          With(DateModelOf(e.model_id), LAMBDA model :
            /\ e.payment_date >= (IF model.date_one_time # Null THEN model.date_one_time
                                  ELSE model.date_begin)
            /\ \A d \in DatesSet(<<doc.termination.termination_date,
                                    model.date_one_time, model.date_end>>) :
                   e.payment_date <= d
            /\ doc.date_purchased # Null => e.payment_date <= doc.date_purchased
            /\ model.date_one_time # Null => e.payment_index = 0))

\* a monthly model running to 2025-01-31 under a termination date of
\* 2024-09-15 has its eight instants of January to August, and a one-time
\* model after it has its one instant
C19_Witness ==
    /\ pc = "generated"
    /\ doc.termination.termination_date = DateLocal(2024, 9, 15)
    /\ doc.date_purchased = Null
    /\ Len(doc.grantor) = 1
    /\ Len(doc.date_payment_models) = 2
    /\ doc.date_payment_models[1].frequency = "Monthly"
    /\ doc.date_payment_models[1].date_end = DateLocal(2025, 1, 31)
    /\ doc.date_payment_models[2].date_one_time # Null
    /\ Len(EventsOfModel(doc.date_payments, 1)) = 8
    /\ Len(EventsOfModel(doc.date_payments, 2)) = 1

(***************************************************************************)
(* C20: total_controlled_acres                                             *)
(***************************************************************************)
\* the sum of agreement_acres over the descriptions at the places I, acres
\* that are null or missing counting as 0
RECURSIVE AcresOver(_, _)
AcresOver(I, property_description) ==
    IF I = {} THEN 0
    ELSE With(CHOOSE i \in I : TRUE, LAMBDA i :
            (IF property_description[i].agreement_acres \in {Null, Undefined} THEN 0
             ELSE property_description[i].agreement_acres)
            + AcresOver(I \ {i}, property_description))

\* C20: total_controlled_acres is the sum of agreement_acres over the property
\* descriptions not flagged exclude_acres_from_controlled_acres, a missing
\* agreement_acres counting as 0, whatever the order of the descriptions
C20_ControlledAcresIsSum ==
    doc.total_controlled_acres =
        AcresOver({i \in 1..Len(doc.property_description) :
                      ~doc.property_description[i].exclude_acres_from_controlled_acres},
                  doc.property_description)

(***************************************************************************)
(* The period calendar on its own: JupiterDoc.calcPaymentPeriodEnd         *)
(***************************************************************************)
\* the days a payment period may start on, and the ends of the term
PeriodStarts ==
    {DateLocal(2024, 1, 1), DateLocal(2024, 1, 31), DateLocal(2024, 2, 15),
     DateLocal(2024, 5, 20), DateLocal(2024, 11, 30), DateLocal(2024, 12, 31)}

PeriodTermEnds ==
    {DateLocal(2024, 3, 10), DateLocal(2024, 12, 31), DateLocal(2025, 6, 30)}

\* the arguments of a call of calcPaymentPeriodEnd
InitPeriod ==
    /\ doc = EmptyDoc(1)
    /\ others = <<>>
    /\ pc = "constructed"
    /\ snap = NoSnap
    /\ \E start_date \in PeriodStarts, frequency \in Frequencies, prorated \in BOOLEAN,
          term_end \in PeriodTermEnds :
          /\ start_date <= term_end
          /\ gen = [kind |-> "period", start_date |-> start_date,
                    frequency |-> frequency, prorated |-> prorated,
                    term_end |-> term_end, payment_period_end |-> Null]

\* this.calcPaymentPeriodEnd(start_date, frequency, prorated, term_end); a
\* payment_period_end of Null is the undefined the call returns
CalcPaymentPeriodEnd ==
    /\ pc = "constructed"
    /\ gen' = [gen EXCEPT !.payment_period_end =
                  calcPaymentPeriodEnd(gen.start_date, gen.frequency, gen.prorated,
                                       gen.term_end)]
    /\ pc' = "period_end"
    /\ UNCHANGED <<doc, others, snap>>

NextPeriod == CalcPaymentPeriodEnd

SpecPeriod == InitPeriod /\ [][NextPeriod]_vars

\* the frequencies the calendar lists
ListedFrequencies ==
    {"Annually", "Semiannually", "Quarterly", "Monthly", "Once per Term"}

\* the last day of the month
EndOfMonth(y, m) == DateLocal(y, m, DaysInMonth(y, m))

\* the end of the calendar year, quarter or month that holds the day
CalendarBoundary(t, frequency) ==
    IF frequency = "Annually" THEN DateLocal(YearOf(t), 12, 31)
    ELSE IF frequency = "Quarterly"
    THEN EndOfMonth(YearOf(t), 3 * ((MonthOf(t) - 1) \div 3) + 3)
    ELSE EndOfMonth(YearOf(t), MonthOf(t))

\* C21: calcPaymentPeriodEnd returns a date for each of the frequencies
\* Annually, Semiannually, Quarterly, Monthly and Once per Term under both
\* alignments, and under pro-rated alignment that date is the end of the
\* calendar year, quarter or month that holds the period start, capped at the
\* term end
C21_PeriodEndIsCalendarBoundary ==
    (pc = "period_end" /\ gen.frequency \in ListedFrequencies) =>
        /\ gen.payment_period_end # Null
        /\ (gen.prorated /\ gen.frequency \in {"Annually", "Quarterly", "Monthly"})
              => gen.payment_period_end
                   = Min(CalendarBoundary(gen.start_date, gen.frequency), gen.term_end)

(***************************************************************************)
(* C22: the start date of a term                                           *)
(***************************************************************************)
\* C22: after calcAgreementTermDates a non-extension Construction term starts
\* on construction_commencement and a non-extension Operations term on
\* operations_commencement when that date is provided, whatever the end of
\* the term before it; every other term starts the day after the end_date of
\* the term before it in ordinal order, the first one on the commencement date
\* if given, else on the effective date
C22_TermStartPrecedence ==
    Resolved =>
        \A i \in 1..Len(doc.agreement_terms) :
            With(doc.agreement_terms[i], LAMBDA term :
                /\ \A h \in 1..(i - 1) :
                       doc.agreement_terms[h].term_ordinal <= term.term_ordinal
                /\ term.start_date =
                      (IF term.term_type = "Construction" /\ ~term.extension
                            /\ doc.operational_details.construction_commencement # Null
                       THEN doc.operational_details.construction_commencement
                       ELSE IF term.term_type = "Operations" /\ ~term.extension
                                 /\ doc.operational_details.operations_commencement # Null
                       THEN doc.operational_details.operations_commencement
                       ELSE IF i > 1 THEN doc.agreement_terms[i - 1].end_date + 1
                       ELSE IF doc.operational_details.commencement_date # Null
                       THEN doc.operational_details.commencement_date
                       ELSE doc.effective_date))

\* an Operations term that starts on operations_commencement although the
\* term before it ends later, in an agreement whose first term starts on the
\* commencement date
C22_Witness ==
    /\ Resolved
    /\ Len(doc.agreement_terms) = 2
    /\ doc.operational_details.commencement_date # Null
    /\ doc.agreement_terms[1].term_type = "Option"
    /\ doc.agreement_terms[1].start_date = doc.operational_details.commencement_date
    /\ doc.agreement_terms[2].term_type = "Operations"
    /\ doc.agreement_terms[2].start_date = doc.operational_details.operations_commencement
    /\ doc.agreement_terms[2].start_date # doc.agreement_terms[1].end_date + 1

(***************************************************************************)
(* C23: terms cut short or cancelled by the operational dates              *)
(***************************************************************************)
\* the commencement dates of construction and of operations that are set
OpsDatesSet ==
    {doc.operational_details.construction_commencement,
     doc.operational_details.operations_commencement} \ {Null}

\* C23: after calcAgreementTermDates with an operational commencement date
\* set, every term that is neither Construction nor Operations and starts on
\* or after the earliest of construction_commencement and
\* operations_commencement is marked cancelled_by_ops, every such term not
\* marked ends strictly before that earliest date, and every Construction
\* term ends strictly before operations_commencement
C23_OperationalDatesCutTerms ==
    (Resolved /\ OpsDatesSet # {}) =>
        \A i \in 1..Len(doc.agreement_terms) :
            With(doc.agreement_terms[i], LAMBDA term :
                /\ term.term_type \notin {"Construction", "Operations"} =>
                      /\ (\E d \in OpsDatesSet : term.start_date >= d)
                            => term.cancelled_by_ops
                      /\ ~term.cancelled_by_ops
                            => \A d \in OpsDatesSet : term.end_date < d
                /\ (term.term_type = "Construction"
                      /\ doc.operational_details.operations_commencement # Null)
                      => term.end_date < doc.operational_details.operations_commencement)

\* an agreement with both commencement dates set, operations commencing
\* first: its first Option term is cut short the day before and its second
\* Option term is cancelled
C23_Witness ==
    /\ Resolved
    /\ Cardinality(OpsDatesSet) = 2
    /\ Len(doc.agreement_terms) = 2
    /\ doc.agreement_terms[1].term_type = "Option"
    /\ doc.agreement_terms[2].term_type = "Option"
    /\ ~doc.agreement_terms[1].cancelled_by_ops
    /\ doc.agreement_terms[1].end_date + 1 = doc.operational_details.operations_commencement
    /\ doc.agreement_terms[1].end_date
          < PlusDays(EndCalc(doc.agreement_terms[1], doc.agreement_terms[1].start_date), 0 - 1)
    /\ doc.agreement_terms[2].cancelled_by_ops

(***************************************************************************)
(* C24: the payment lag in the blended generator                           *)
(***************************************************************************)
\* C24: the events the blended generator leaves on a term follow the lag rule
\* of the standard generator: the event of payment index 0 has
\* late_payment_date = payment_date + first_payment_lag, every event of a
\* later index has late_payment_date = payment_date + subsequent_payment_lag,
\* and both are null on an extension term unless apply_payment_lag_to_extension
\* is set
C24_BlendedLagAsStandard ==
    \A k \in 1..Len(doc.agreement_terms) :
        With(doc.agreement_terms[k], LAMBDA term :
          With(termPaymentModel(term, doc.term_payment_models), LAMBDA model :
            (model # NoModel /\ UsesBlended(model)) =>
                \A j \in 1..Len(term.periodic_payments) :
                    With(term.periodic_payments[j], LAMBDA e :
                        e.late_payment_date
                            = LatePaymentDate(e.payment_index, e.payment_date, term, model))))

(***************************************************************************)
(* C25: the period starts of the standard generator                        *)
(***************************************************************************)
\* the places of the terms the standard generator is for
StandardTerms ==
    {k \in 1..Len(doc.agreement_terms) :
        With(termPaymentModel(doc.agreement_terms[k], doc.term_payment_models),
             LAMBDA model : model # NoModel /\ ~UsesBlended(model))}

\* C25: every event of the standard generator has its payment_period_start
\* strictly before the end_date of its term and, when the agreement has a
\* closing date (date_purchased, else estimated_closing_date), on or before
\* that closing date
C25_PeriodStartsBeforeClosing ==
    \A k \in StandardTerms :
        \A j \in 1..Len(doc.agreement_terms[k].periodic_payments) :
            With(doc.agreement_terms[k].periodic_payments[j], LAMBDA e :
                /\ e.payment_period_start < doc.agreement_terms[k].end_date
                /\ ClosingDate(doc) # Null => e.payment_period_start <= ClosingDate(doc))

(***************************************************************************)
(* C26: the amounts of the events are numbers                              *)
(***************************************************************************)
\* C26: every event of the standard generator and of the date-based generator
\* carries a payment_amount that is a finite number, never NaN, when optional
\* numeric inputs are absent and for every listed payment frequency, "Once
\* per Term" included, with any periodic_escalation_frequency
C26_AmountsAreNumbers ==
    /\ \A k \in StandardTerms :
          doc.term_payment_models[1].payment_frequency \in ListedFrequencies =>
              \A j \in 1..Len(doc.agreement_terms[k].periodic_payments) :
                  ~IsNaN(doc.agreement_terms[k].periodic_payments[j].payment_amount)
    /\ \A j \in 1..Len(GeneratedPart(doc.date_payments)) :
          ~IsNaN(GeneratedPart(doc.date_payments)[j].payment_amount)

(***************************************************************************)
(* C27: the compounding periods along the schedule                         *)
(***************************************************************************)
\* the frequencies of the ratio table
RatioFrequencies == {"Annually", "Semiannually", "Quarterly", "Monthly"}

\* the compounding periods applied to event j of the term at place k
PeriodsOfEvent(k, j) ==
    CompoundingPeriods(doc, doc.agreement_terms[k],
                       termPaymentModel(doc.agreement_terms[k], doc.term_payment_models),
                       doc.agreement_terms[k].periodic_payments[j].payment_index)

\* the terms of the standard generator that received events
PaidTerms == {k \in StandardTerms : doc.agreement_terms[k].periodic_payments # <<>>}

\* C27: in the standard generator the number of compounding periods
\* floor((previous_periods + i) / ratio) never decreases along the schedule:
\* it does not decrease from one payment of a term to the next, and the first
\* payment of a term has at least as many periods as the last payment of an
\* earlier term of the same payment_model, when the payment frequency and the
\* escalation frequency are both in the ratio table
C27_PeriodsNeverDecrease ==
    \A k \in PaidTerms :
        With(termPaymentModel(doc.agreement_terms[k], doc.term_payment_models),
             LAMBDA model : /\ model.payment_frequency \in RatioFrequencies
                            /\ model.periodic_escalation_frequency \in RatioFrequencies) =>
        /\ \A j \in 1..(Len(doc.agreement_terms[k].periodic_payments) - 1) :
              ~FLess(PeriodsOfEvent(k, j + 1), PeriodsOfEvent(k, j))
        /\ \A h \in PaidTerms :
              (/\ doc.agreement_terms[h].term_ordinal < doc.agreement_terms[k].term_ordinal
               /\ doc.agreement_terms[h].payment_model = doc.agreement_terms[k].payment_model)
              => ~FLess(PeriodsOfEvent(k, 1),
                        PeriodsOfEvent(h, Len(doc.agreement_terms[h].periodic_payments)))

(***************************************************************************)
(* C28: the payment periods of a term                                      *)
(***************************************************************************)
\* the events of the first grantor of the term at place k, one per payment
\* instant
InstantsOfTerm(k) ==
    [m \in 1..(Len(doc.agreement_terms[k].periodic_payments) \div Len(doc.grantor)) |->
        doc.agreement_terms[k].periodic_payments[(m - 1) * Len(doc.grantor) + 1]]

\* the periods of `es` start on start_date, follow each other without a gap
\* or an overlap and end on end_date
CoversExactly(es, start_date, end_date) ==
    /\ es # <<>>
    /\ es[1].payment_period_start = start_date
    /\ \A m \in 1..(Len(es) - 1) :
          es[m + 1].payment_period_start = PlusDays(es[m].payment_period_end, 1)
    /\ es[Len(es)].payment_period_end = end_date

\* the payment frequency of the model is one calcPaymentPeriodEnd has a case
\* for under the alignment of the model
Recognized(model) ==
    /\ model.payment_frequency \in ListedFrequencies
    /\ model.prorated_first_period =>
          model.payment_frequency \in {"Annually", "Quarterly", "Monthly"}

\* C28: in the standard generator, when no purchase date cuts the schedule
\* short and the payment frequency is a recognized one, the payment periods of a
\* term with start_date <= end_date cover the term exactly: the first period
\* starts on the start_date of the term, each next period starts the day
\* after the end of the previous one, and the last period ends on the
\* end_date of the term
C28_PeriodsCoverTerm ==
    (pc \in {"generated", "settled"} /\ doc.date_purchased = Null /\ doc.grantor # <<>>) =>
        \A k \in StandardTerms :
            (/\ doc.agreement_terms[k].start_date # Null
             /\ doc.agreement_terms[k].end_date # Null
             /\ doc.agreement_terms[k].start_date <= doc.agreement_terms[k].end_date
             /\ Recognized(termPaymentModel(doc.agreement_terms[k],
                                            doc.term_payment_models)))
            => CoversExactly(InstantsOfTerm(k), doc.agreement_terms[k].start_date,
                             doc.agreement_terms[k].end_date)

(***************************************************************************)
(* C29: a second settlement call                                           *)
(***************************************************************************)
\* C29: settlement events are not counted among the prior applicable
\* payments: a second calcEstimatedPurchasePrice call, the date payments not
\* being generated again in between, leaves in date_payments the
\* "Purchase Price Calculation" events of the first call and no other, one
\* per grantor with the amount of the first call
C29_SecondSettlementChangesNothing ==
    [][CalcEstimatedPurchasePriceAgain =>
          /\ SettlementPart(doc'.date_payments) = SettlementPart(doc.date_payments)
          /\ SettlementDue(doc) =>
                Len(SettlementPart(doc'.date_payments)) = Len(doc.grantor)]_vars

(***************************************************************************)
(* C30: the order of the documents in the collection                       *)
(***************************************************************************)
\* the collection with its documents in the opposite order
Reversed(docs) == [j \in 1..Len(docs) |-> docs[Len(docs) + 1 - j]]

\* the overwrite fields and the date payment models of the merged view
MergedView(self) ==
    <<self.effective_date, self.outside_date, self.property_description,
      self.jupiter_entity, self.grantee, self.grantor, self.full_purchase_price,
      self.estimated_closing_date, self.date_purchased, self.date_sold,
      self.agreement_terms, self.term_payment_models, self.termination,
      self.review_status, self.date_payment_models>>

\* the amendment ordinal of every document of the collection
OrdinalsOf(docs) == {<<docs[j].id, docs[j].amendment_ordinal>> : j \in 1..Len(docs)}

\* the sort dates of the amendments of self in docs are pairwise distinct
DistinctSortDates(self, docs) ==
    \A j, k \in Candidates(self, docs) :
        j # k => OperativeSortDate(docs[j]) # OperativeSortDate(docs[k])

\* the first processAmendments call gives what it would give on the collection
\* in the opposite order
SameOnReversed ==
    LET r == processAmendments(doc, Reversed(<<doc>> \o others))
    IN  /\ MergedView(r.self) = MergedView(doc')
        /\ OrdinalsOf(r.allDocs) = OrdinalsOf(<<doc'>> \o others')

\* C30: the merged view of processAmendments does not depend on the order of
\* the documents in the collection: on the same documents in another order
\* the overwrite fields, the order of the appended date_payment_models and the
\* amendment ordinals are the same, whether the sort dates of the amendments
\* are pairwise distinct or two amendments share a sort date
C30_OrderOfCollectionIrrelevant ==
    [][(ProcessAmendments /\ pc = "constructed") => SameOnReversed]_vars

====
